---------------------------- MODULE Spec2Model ----------------------------
(***************************************************************************)
(* A model of the swarming bot runtime of luci-py:                         *)
(*   - api/bot.py                 Bot (dimensions / state container)       *)
(*   - bot_code/remote_client_grpc.py   RemoteClientGrpc                   *)
(*   - api/platforms/android.py   _PerDeviceCache, LowDevice, HighDevice,  *)
(*                                 get_devices                             *)
(* Every subsystem has its own variables and its own specification; the    *)
(* variables of the other subsystems rest at their initial value.          *)
(*                                                                         *)
(* Python values are encoded as follows.  A dict is a function whose       *)
(* DOMAIN is the set of its keys.  A value that may be None is a record    *)
(* NoneV = [none |-> TRUE] or Some(v) = [none |-> FALSE, val |-> v].  A    *)
(* str is a sequence of one-character strings, "LF" standing for '\n' and  *)
(* "CR" for '\r'.  An exception leaving a call is recorded in the call's   *)
(* `raised` field ("" when the call returned).                             *)
(***************************************************************************)
EXTENDS Integers, Sequences, FiniteSets, TLC

VARIABLES
  \* ---- api/bot.py: class Bot
  attributes,              \* Bot._attributes
  bot_group_cfg_ver,       \* Bot._bot_group_cfg_ver
  server_side_dimensions,  \* Bot._server_side_dimensions
  botCall,                 \* the last call made on the Bot and how it ended
  botCalls,                \* number of calls made so far (bounded)
  \* ---- bot_code/remote_client_grpc.py: class RemoteClientGrpc
  log_is_asleep,           \* RemoteClientGrpc._log_is_asleep
  pollCall,                \* the last poll: the flag as it found it, the
                           \* response, what was logged and what poll()
                           \* returned or raised
  \* ---- api/platforms/android.py: class LowDevice
  adb_cmd,                 \* LowDevice.adb_cmd: "conn" (an AdbCommands) or "None"
  on_error,                \* LowDevice._on_error: TRUE when a callback was given
  has_reset,               \* LowDevice._has_reset
  adbReply,                \* what the device answers to adb_cmd.Shell()
  lowCall,                 \* the last call made on the LowDevice and how it ended
  \* ---- api/platforms/android.py: device discovery
  adb_keys,                \* _ADB_KEYS is set and not empty
  usb,                     \* the bus: for each port path, whether a device is
                           \* plugged in and which OS image it carries
  per_device,              \* _per_device_cache._per_device
  disc,                    \* the get_devices() call in progress, if any
  devices,                 \* what the last get_devices() returned
  discLast,                \* the last step taken by discovery
  \* ---- api/platforms/android.py: class HighDevice (over the LowDevice above)
  hd_cache,                \* HighDevice._cache, a DeviceCache
  sysfs,                   \* the device's cpufreq files: path -> content
  govCall,                 \* the last call made on the HighDevice: what it
                           \* asked of the device, in order, and how it ended
  tmpfiles,                \* the files of the device's /data/local/tmp
  wrap,                    \* HighDevice.run_shell_wrapped: where the call is,
                           \* its locals and the removals it has issued
  \* ---- api/bot.py: Bot.post_error and Bot.restart
  shutdown_hook,           \* Bot._shutdown_hook is set
  botProc,                 \* the call in progress on the Bot: where it is,
                           \* its argument and what it raised
  botTrace,                \* what that call did so far, in order
  \* ---- bot_code/remote_client_grpc.py: the calls other than poll
  new_zip,                 \* the file at new_zip_fn, if there is one
  clientCall,              \* the last of these calls: its arguments, what
                           \* the channel did, what it did and how it ended
  \* ---- the agent's poll loop, the caller of RemoteClientGrpc.poll
  agentState,              \* the state of the loop: Idle, Sleeping, ...
  agentLast,               \* the last step the loop took
  \* ---- the AdbCommands connection a LowDevice was given
  closes,                  \* how many times its Close() was called
  \* ---- api/bot.py: Bot.dimensions and Bot.state, with their list objects
  attrRefs,                \* Bot._attributes: 'dimensions' and 'state', each
                           \* a dict from key to the list object it holds
  heap,                    \* the list objects: object -> content
  returned,                \* the dict the last read of a property returned
  viewCall,                \* what the caller did last, and what the
                           \* properties read as before it
  \* ---- api/platforms/android.py: the composite reads of HighDevice
  readCall,                \* the read in progress: what the primitives
                           \* returned to it and how it ended
  \* ---- api/platforms/android.py: _PerDeviceCache under several workers
  cache_lock,              \* _PerDeviceCache._lock is held
  workers,                 \* each worker's call on the registry: where it
                           \* is, its arguments and locals, how it ended
  per_device0,             \* the registry before the calls
  \* ---- api/platforms/android.py: _ADB_KEYS_RAW and HighDevice.push_keys
  adb_keys_raw,            \* the public keys of _ADB_KEYS_RAW, NoneV before
                           \* initialize()
  keysCall,                \* the last push_keys: the files it found, the
                           \* requests it made and how it ended
  \* ---- api/platforms/android.py: open_device_low
  usb_open,                \* per port path: the common.UsbHandle is open
  openCall                 \* the open_device_low in progress: where it is,
                           \* its locals and how it ended

botVars == <<attributes, bot_group_cfg_ver, server_side_dimensions, botCall,
             botCalls>>

pollVars == <<log_is_asleep, pollCall>>

lowVars == <<adb_cmd, on_error, has_reset, adbReply, lowCall>>

discVars == <<adb_keys, usb, per_device, disc, devices, discLast>>

govVars == <<hd_cache, sysfs, govCall>>

wrapVars == <<tmpfiles, wrap>>

restartVars == <<shutdown_hook, botProc, botTrace>>

clientVars == <<new_zip, clientCall>>

agentVars == <<agentState, agentLast>>

connVars == <<closes>>

viewVars == <<attrRefs, heap, returned, viewCall>>

readVars == <<readCall>>

cacheVars == <<cache_lock, workers, per_device0>>

keysVars == <<adb_keys_raw, keysCall>>

openVars == <<usb_open, openCall>>

vars == <<botVars, pollVars, lowVars, discVars, govVars, wrapVars, restartVars, clientVars, agentVars, connVars, viewVars, readVars, cacheVars, keysVars, openVars>>

\* What a call on one subsystem leaves alone: the other subsystems.
notBot == <<pollVars, lowVars, discVars, govVars, wrapVars, restartVars, clientVars, agentVars, connVars, viewVars, readVars, cacheVars, keysVars, openVars>>

notPoll == <<botVars, lowVars, discVars, govVars, wrapVars, restartVars, clientVars, agentVars, connVars, viewVars, readVars, cacheVars, keysVars, openVars>>

notLow == <<botVars, pollVars, discVars, govVars, wrapVars, restartVars, clientVars, agentVars, connVars, viewVars, readVars, cacheVars, keysVars, openVars>>

notDisc == <<botVars, pollVars, lowVars, govVars, wrapVars, restartVars, clientVars, agentVars, connVars, viewVars, readVars, cacheVars, keysVars, openVars>>

notGov == <<botVars, pollVars, discVars, wrapVars, restartVars, clientVars, agentVars, connVars, viewVars, readVars, cacheVars, keysVars, openVars>>

notWrap == <<botVars, pollVars, discVars, govVars, restartVars, clientVars, agentVars, connVars, viewVars, readVars, cacheVars, keysVars, openVars>>

notRestart == <<botVars, pollVars, lowVars, discVars, govVars, wrapVars, clientVars, agentVars, connVars, viewVars, readVars, cacheVars, keysVars, openVars>>

notClient == <<botVars, pollVars, lowVars, discVars, govVars, wrapVars, restartVars, agentVars, connVars, viewVars, readVars, cacheVars, keysVars, openVars>>

notAgent == <<botVars, lowVars, discVars, govVars, wrapVars, restartVars, clientVars, connVars, viewVars, readVars, cacheVars, keysVars, openVars>>

notClose == <<botVars, pollVars, discVars, govVars, wrapVars, restartVars, clientVars, agentVars, viewVars, readVars, cacheVars, keysVars, openVars>>

notView == <<botVars, pollVars, lowVars, discVars, govVars, wrapVars, restartVars, clientVars, agentVars, connVars, readVars, cacheVars, keysVars, openVars>>

notRead == <<botVars, pollVars, lowVars, discVars, govVars, wrapVars, restartVars, clientVars, agentVars, connVars, viewVars, cacheVars, keysVars, openVars>>

notCache == <<botVars, pollVars, lowVars, govVars, wrapVars, restartVars, clientVars, agentVars, connVars, viewVars, readVars, keysVars, openVars>>

notKeys == <<botVars, pollVars, discVars, wrapVars, restartVars, clientVars, agentVars, connVars, viewVars, readVars, cacheVars, openVars>>

notOpen == <<botVars, pollVars, discVars, govVars, wrapVars, restartVars, clientVars, agentVars, connVars, viewVars, readVars, cacheVars, keysVars>>

-----------------------------------------------------------------------------
(* Python values *)

NoneV == [none |-> TRUE]

Some(v) == [none |-> FALSE, val |-> v]

EmptyDict == <<>>

\* dict.get(k, default)
Get(d, k, default) == IF k \in DOMAIN d THEN d[k] ELSE default

\* d.copy() followed by .update(u): the keys of u replace those of d.
DictUpdate(d, u) ==
  [k \in DOMAIN d \cup DOMAIN u |-> IF k \in DOMAIN u THEN u[k] ELSE d[k]]

\* d[k] = v
DictSet(d, k, v) == [x \in DOMAIN d \cup {k} |-> IF x = k THEN v ELSE d[x]]

-----------------------------------------------------------------------------
(* api/bot.py *)

\* Bound: the number of calls made on one Bot.
MaxBotCalls == 2

DimNames == {"pool", "os"}

\* The values a dimension may take: a dimension is an ordered list of strings.
DimValues(name) ==
  IF name = "pool" THEN {<<"dev">>, <<"prod">>} ELSE {<<"Linux">>, <<"Mac">>}

\* All dimension dicts: a subset of the names, each with one of its values.
DimDicts ==
  UNION {{d \in [D -> UNION {DimValues(n) : n \in DimNames}] :
            \A n \in D : d[n] \in DimValues(n)} : D \in SUBSET DimNames}

Versions == {"v3", "v4"}

\* The `attributes` argument of Bot.__init__, as bot_main builds it: a dict
\* that holds 'dimensions' and 'state', or None/{} (then `attributes or {}`).
AgentAttributes ==
  {EmptyDict} \cup
  {[k \in {"dimensions", "state"} |->
      IF k = "dimensions" THEN d ELSE s] :
      d \in DimDicts, s \in {EmptyDict, [j \in {"sleep_streak"} |-> "7"]}}

\* The `cfg` argument of _update_bot_group_cfg: None, or a dict that may or
\* may not hold 'dimensions'.
BotGroupCfgs ==
  {NoneV, Some(EmptyDict)} \cup
  {Some([k \in {"dimensions"} |-> d]) : d \in DimDicts}

\* Bot.dimensions: self._attributes.get('dimensions', {}).copy()
Dimensions(attrs) == Get(attrs, "dimensions", EmptyDict)

\* Bot.state: self._attributes.get('state', {}).copy()
State(attrs) == Get(attrs, "state", EmptyDict)

\* (cfg or {}).get('dimensions'): None when cfg is None, empty or lacks the key.
CfgDimensions(cfg) ==
  IF cfg = NoneV THEN NoneV
  ELSE IF "dimensions" \in DOMAIN cfg.val THEN Some(cfg.val["dimensions"])
  ELSE NoneV

\* A mutant of MergeDimensions: the forced values are appended to the agent's.
MergeDimensionsJoined(new_dimensions, forced) ==
  [k \in DOMAIN new_dimensions \cup DOMAIN forced |->
     IF k \in DOMAIN forced /\ k \in DOMAIN new_dimensions
       THEN new_dimensions[k] \o forced[k]
     ELSE IF k \in DOMAIN forced THEN forced[k] ELSE new_dimensions[k]]

\* Bot._update_dimensions, lines 250-251: new_dimensions.copy() and then
\* .update(self._server_side_dimensions).
MergeDimensions(new_dimensions, forced) == DictUpdate(new_dimensions, forced)

\* Bot._update_dimensions(new_dimensions) on attributes `attrs` with
\* _server_side_dimensions = ssd.  dict.update(None) raises TypeError and
\* leaves attrs alone.
UpdateDimensions(attrs, ssd, new_dimensions) ==
  IF ssd = NoneV
    THEN [attrs |-> attrs, raised |-> "TypeError"]
    ELSE [attrs |-> DictSet(attrs, "dimensions",
                            MergeDimensions(new_dimensions, ssd.val)),
          raised |-> ""]

\* Bot._update_state(new_state) with _bot_group_cfg_ver = ver.
UpdateState(attrs, ver, new_state) ==
  DictSet(attrs, "state", DictSet(new_state, "bot_group_cfg_version", ver))

\* `x or {}` for a dict x that may be absent: an empty dict is falsy too.
OrEmpty(d, k) == Get(d, k, EmptyDict)

\* Bot.__init__(remote, attributes, ...) with attributes = attrs.
BotConstructed(attrs) ==
  /\ attributes = attrs
  /\ bot_group_cfg_ver = "None"
  /\ server_side_dimensions = Some(EmptyDict)
  /\ botCall = [op |-> "init", version |-> "None", cfg |-> NoneV,
                pre |-> attributes, raised |-> ""]
  /\ botCalls = 0

BotInit == \E attrs \in AgentAttributes : BotConstructed(attrs)

\* The Bot while another subsystem is looked at: built without attributes.
BotIdle == BotConstructed(EmptyDict)

\* Bot._update_bot_group_cfg(cfg_version, cfg)
UpdateBotGroupCfg(cfg_version, cfg) ==
  /\ botCalls < MaxBotCalls
  /\ LET ssd == CfgDimensions(cfg)
         r   == UpdateDimensions(attributes, ssd,
                                 OrEmpty(attributes, "dimensions"))
     IN /\ bot_group_cfg_ver' = cfg_version
        /\ server_side_dimensions' = ssd
        /\ attributes' =
             IF r.raised # "" THEN r.attrs
             ELSE UpdateState(r.attrs, cfg_version, OrEmpty(r.attrs, "state"))
        /\ botCall' = [op |-> "_update_bot_group_cfg", version |-> cfg_version,
                       cfg |-> cfg, pre |-> attributes, raised |-> r.raised]
  /\ botCalls' = botCalls + 1
  /\ UNCHANGED notBot

\* Bot._update_dimensions(new_dimensions), as bot_main calls it when the
\* agent's own dimensions are refreshed.
UpdateDimensionsCall(new_dimensions) ==
  /\ botCalls < MaxBotCalls
  /\ LET r == UpdateDimensions(attributes, server_side_dimensions,
                               new_dimensions)
     IN /\ attributes' = r.attrs
        /\ botCall' = [op |-> "_update_dimensions", version |-> "None",
                       cfg |-> Some([k \in {"dimensions"} |-> new_dimensions]),
                       pre |-> attributes, raised |-> r.raised]
  /\ botCalls' = botCalls + 1
  /\ UNCHANGED <<bot_group_cfg_ver, server_side_dimensions>>
  /\ UNCHANGED notBot

BotUpdateCfg == \E v \in Versions, cfg \in BotGroupCfgs : UpdateBotGroupCfg(v, cfg)

BotUpdateDims == \E d \in DimDicts : UpdateDimensionsCall(d)

BotNext == BotUpdateCfg \/ BotUpdateDims

-----------------------------------------------------------------------------
(* api/bot.py: the properties Bot.dimensions and Bot.state.  Each returns   *)
(* self._attributes.get(name, {}).copy(): a new dict whose values are the   *)
(* very objects the Bot holds.  A list is an object of the heap; a dict     *)
(* maps a key to such an object.                                            *)

\* Bound: the longest list.
MaxList == 2

Properties == {"dimensions", "state"}

\* The list objects: 1 and 2 are values of the Bot's dimensions, 3 is a
\* value of its state, 4 is a list the caller made.
Objects == 1..4

CallerList == CHOOSE o \in Objects : \A p \in Objects : p <= o

\* The keys a caller may set in a dict it was given.
ViewKeys == {"pool", "os", "disks", "mine"}

ViewItems == {"x"}

\* d.copy(): a new dict with the same keys, each holding the same object.
Copy(d) == [k \in DOMAIN d |-> d[k]]

\* Bot.dimensions (line 122) and Bot.state (line 167).
Projection(refs, name) == [of |-> name, map |-> Copy(refs[name])]

\* What a dict of objects reads as: each key with the content of its list.
Deref(d, h) == [k \in DOMAIN d |-> h[d[k]]]

\* What Bot.dimensions and Bot.state read as, and what is sent to the
\* controller as attributes.
Reads(refs, h) == [name \in Properties |-> Deref(refs[name], h)]

\* del d[k]
DictDel(d, k) == [x \in DOMAIN d \ {k} |-> d[x]]

NoViewCall == [op |-> "init", key |-> "", seen |-> <<>>]

\* A Bot with dimensions {pool: [dev], os: [Linux]} and state {disks: [sda]}.
ViewConstructed ==
  /\ attrRefs = [name \in Properties |->
                   IF name = "dimensions"
                     THEN [k \in {"pool", "os"} |-> IF k = "pool" THEN 1 ELSE 2]
                     ELSE [k \in {"disks"} |-> 3]]
  /\ heap = [o \in Objects |->
               CASE o = 1 -> <<"dev">>
                 [] o = 2 -> <<"Linux">>
                 [] o = 3 -> <<"sda">>
                 [] o = 4 -> <<>>]
  /\ returned = NoneV
  /\ viewCall = NoViewCall

ViewIdle == ViewConstructed

\* d = bot.dimensions, or d = bot.state
ViewRead(name) ==
  /\ returned' = Some(Projection(attrRefs, name))
  /\ viewCall' = [op |-> "read", key |-> name, seen |-> Reads(attrRefs, heap)]
  /\ UNCHANGED <<attrRefs, heap>>
  /\ UNCHANGED notView

\* d[k] = [] with a list of the caller's: adds the key or replaces its value.
ViewSetKey(k) ==
  /\ returned # NoneV
  /\ returned' = Some([returned.val EXCEPT
                         !.map = DictSet(returned.val.map, k, CallerList)])
  /\ viewCall' = [op |-> "set", key |-> k, seen |-> Reads(attrRefs, heap)]
  /\ UNCHANGED <<attrRefs, heap>>
  /\ UNCHANGED notView

\* del d[k]
ViewDelKey(k) ==
  /\ returned # NoneV
  /\ k \in DOMAIN returned.val.map
  /\ returned' = Some([returned.val EXCEPT
                         !.map = DictDel(returned.val.map, k)])
  /\ viewCall' = [op |-> "del", key |-> k, seen |-> Reads(attrRefs, heap)]
  /\ UNCHANGED <<attrRefs, heap>>
  /\ UNCHANGED notView

\* d[k].append(item)
ViewAppend(k, item) ==
  /\ returned # NoneV
  /\ k \in DOMAIN returned.val.map
  /\ Len(heap[returned.val.map[k]]) < MaxList
  /\ heap' = [heap EXCEPT ![returned.val.map[k]] = Append(@, item)]
  /\ viewCall' = [op |-> "append", key |-> k, seen |-> Reads(attrRefs, heap)]
  /\ UNCHANGED <<attrRefs, returned>>
  /\ UNCHANGED notView

ViewReads == \E name \in Properties : ViewRead(name)

ViewSetsKey == \E k \in ViewKeys : ViewSetKey(k)

ViewDelsKey == \E k \in ViewKeys : ViewDelKey(k)

ViewAppends == \E k \in ViewKeys, item \in ViewItems : ViewAppend(k, item)

ViewNext ==
  \/ ViewReads
  \/ ViewSetsKey
  \/ ViewDelsKey
  \/ ViewAppends

-----------------------------------------------------------------------------
(* bot_code/remote_client_grpc.py *)

\* The values of PollResponse.cmd: the five commands poll() knows, and two
\* the bot's code does not know (a default and one added on the server later).
PollCmds == {"UPDATE", "SLEEP", "TERMINATE", "RESTART", "RUN"}

UnknownCmds == {"UNSET", "BOGUS"}

\* self._server
Server == "host:1234"

TaskIds == {"123", "456"}

\* response.manifest: two manifests that differ in every field, with any task id.
ProtoManifests ==
  {[bot_id |-> "bot1", dimensions |-> [k \in {"os"} |-> "Linux"],
    env |-> [k \in {"PATH"} |-> "/bin"], grace_period |-> 30,
    hard_timeout |-> 60, io_timeout |-> 90,
    isolated |-> [namespace |-> "default-gzip", input |-> "deadbeef"],
    task_id |-> t] : t \in TaskIds}
  \cup
  {[bot_id |-> "bot2", dimensions |-> [k \in {"pool"} |-> "prod"],
    env |-> EmptyDict, grace_period |-> 31,
    hard_timeout |-> 61, io_timeout |-> 91,
    isolated |-> [namespace |-> "default", input |-> "cafe"],
    task_id |-> t] : t \in TaskIds}

\* The PollResponse messages the server may send: a message carries every
\* field, whatever its cmd.
PollResponses ==
  [cmd : PollCmds \cup UnknownCmds, version : {"abc", "def"},
   sleep_time : {1, 30}, terminate_taskid : TaskIds,
   restart_message : {"please reboot"}, manifest : ProtoManifests]

NoResult == [tag |-> "", value |-> NoneV]

\* Lines 105-124: the manifest dict built from response.manifest.
ManifestOf(m) ==
  [bot_id |-> m.bot_id, command |-> NoneV, dimensions |-> m.dimensions,
   env |-> m.env, grace_period |-> m.grace_period,
   hard_timeout |-> m.hard_timeout, io_timeout |-> m.io_timeout,
   isolated |-> [namespace |-> m.isolated.namespace,
                 input |-> m.isolated.input, server |-> Server],
   task_id |-> m.task_id]

\* A mutant of PollDecode: an unknown command is taken for a sleep.
PollDecodeDefaultSleep(response, asleep) ==
  IF response.cmd = "UPDATE" THEN
    [result |-> [tag |-> "update", value |-> response.version],
     raised |-> "", asleep |-> asleep, logged |-> ""]
  ELSE IF response.cmd = "TERMINATE" THEN
    [result |-> [tag |-> "terminate", value |-> response.terminate_taskid],
     raised |-> "", asleep |-> asleep, logged |-> "Terminating!"]
  ELSE IF response.cmd = "RESTART" THEN
    [result |-> [tag |-> "restart", value |-> response.restart_message],
     raised |-> "", asleep |-> asleep, logged |-> "Restarting"]
  ELSE IF response.cmd = "RUN" THEN
    [result |-> [tag |-> "run", value |-> ManifestOf(response.manifest)],
     raised |-> "", asleep |-> FALSE, logged |-> "Received job manifest"]
  ELSE
    [result |-> [tag |-> "sleep", value |-> response.sleep_time],
     raised |-> "", asleep |-> TRUE,
     logged |-> IF asleep THEN "" ELSE "Going to sleep"]

\* A mutant of PollDecode: a TERMINATE response is returned as a restart.
PollDecodeTerminateRestarts(response, asleep) ==
  IF response.cmd = "UPDATE" THEN
    [result |-> [tag |-> "update", value |-> response.version],
     raised |-> "", asleep |-> asleep, logged |-> ""]
  ELSE IF response.cmd = "SLEEP" THEN
    [result |-> [tag |-> "sleep", value |-> response.sleep_time],
     raised |-> "", asleep |-> TRUE,
     logged |-> IF asleep THEN "" ELSE "Going to sleep"]
  ELSE IF response.cmd \in {"TERMINATE", "RESTART"} THEN
    [result |-> [tag |-> "restart", value |-> response.restart_message],
     raised |-> "", asleep |-> asleep, logged |-> "Restarting"]
  ELSE IF response.cmd = "RUN" THEN
    [result |-> [tag |-> "run", value |-> ManifestOf(response.manifest)],
     raised |-> "", asleep |-> FALSE, logged |-> "Received job manifest"]
  ELSE
    [result |-> NoResult, raised |-> "ValueError", asleep |-> asleep,
     logged |-> ""]

\* A mutant of PollDecode: a RUN response leaves _log_is_asleep as it was.
PollDecodeRunKeepsFlag(response, asleep) ==
  IF response.cmd = "UPDATE" THEN
    [result |-> [tag |-> "update", value |-> response.version],
     raised |-> "", asleep |-> asleep, logged |-> ""]
  ELSE IF response.cmd = "SLEEP" THEN
    [result |-> [tag |-> "sleep", value |-> response.sleep_time],
     raised |-> "", asleep |-> TRUE,
     logged |-> IF asleep THEN "" ELSE "Going to sleep"]
  ELSE IF response.cmd = "TERMINATE" THEN
    [result |-> [tag |-> "terminate", value |-> response.terminate_taskid],
     raised |-> "", asleep |-> asleep, logged |-> "Terminating!"]
  ELSE IF response.cmd = "RESTART" THEN
    [result |-> [tag |-> "restart", value |-> response.restart_message],
     raised |-> "", asleep |-> asleep, logged |-> "Restarting"]
  ELSE IF response.cmd = "RUN" THEN
    [result |-> [tag |-> "run", value |-> ManifestOf(response.manifest)],
     raised |-> "", asleep |-> asleep, logged |-> "Received job manifest"]
  ELSE
    [result |-> NoResult, raised |-> "ValueError", asleep |-> asleep,
     logged |-> ""]

\* A mutant of PollDecode: an UPDATE response clears _log_is_asleep, as a
\* RUN response does.
PollDecodeUpdateWakes(response, asleep) ==
  IF response.cmd \in {"UPDATE", "RUN"}
    THEN [PollDecodeRunKeepsFlag(response, asleep) EXCEPT !.asleep = FALSE]
  ELSE PollDecodeRunKeepsFlag(response, asleep)

\* RemoteClientGrpc.poll, lines 87-129: what is returned or raised for a
\* response, the new value of _log_is_asleep and the line logged.
PollDecode(response, asleep) ==
  IF response.cmd = "UPDATE" THEN
    [result |-> [tag |-> "update", value |-> response.version],
     raised |-> "", asleep |-> asleep, logged |-> ""]
  ELSE IF response.cmd = "SLEEP" THEN
    [result |-> [tag |-> "sleep", value |-> response.sleep_time],
     raised |-> "", asleep |-> TRUE,
     logged |-> IF asleep THEN "" ELSE "Going to sleep"]
  ELSE IF response.cmd = "TERMINATE" THEN
    [result |-> [tag |-> "terminate", value |-> response.terminate_taskid],
     raised |-> "", asleep |-> asleep, logged |-> "Terminating!"]
  ELSE IF response.cmd = "RESTART" THEN
    [result |-> [tag |-> "restart", value |-> response.restart_message],
     raised |-> "", asleep |-> asleep, logged |-> "Restarting"]
  ELSE IF response.cmd = "RUN" THEN
    [result |-> [tag |-> "run", value |-> ManifestOf(response.manifest)],
     raised |-> "", asleep |-> FALSE, logged |-> "Received job manifest"]
  ELSE
    [result |-> NoResult, raised |-> "ValueError", asleep |-> asleep,
     logged |-> ""]

PollInit ==
  /\ log_is_asleep = FALSE
  /\ pollCall = [op |-> "init", response |-> NoneV, result |-> NoResult,
                 raised |-> "", logged |-> "", was_asleep |-> FALSE]

\* The body of poll(attributes) when the stub returns `response`.
Polled(response) ==
  LET r == PollDecode(response, log_is_asleep)
  IN /\ log_is_asleep' = r.asleep
     /\ pollCall' = [op |-> "poll", response |-> Some(response),
                     result |-> r.result, raised |-> r.raised,
                     logged |-> r.logged, was_asleep |-> log_is_asleep]

\* The body of poll(attributes) when self._stub.Poll raises (line 85):
\* nothing catches the error.
StubRaised ==
  /\ pollCall' = [op |-> "poll", response |-> NoneV, result |-> NoResult,
                  raised |-> "RpcError", logged |-> "",
                  was_asleep |-> log_is_asleep]
  /\ UNCHANGED log_is_asleep

\* RemoteClientGrpc.poll(attributes) when the stub returns `response`.
Poll(response) ==
  /\ Polled(response)
  /\ UNCHANGED notPoll

\* RemoteClientGrpc.poll(attributes) when self._stub.Poll raises.
PollStubRaises ==
  /\ StubRaised
  /\ UNCHANGED notPoll

PollReturns == \E response \in PollResponses : Poll(response)

PollNext == PollReturns \/ PollStubRaises

\* ---- The calls of RemoteClientGrpc other than poll.

\* The longest response.bot_code.
MaxCode == 2

CodeBytes == {"P", "K"}

\* response.bot_code: any string of bytes, the empty one included.
BotCodes == UNION {[1..n -> CodeBytes] : n \in 0..MaxCode}

BotVersions == {"abc", "def"}

\* What the channel does with a request made on the stub: the server gets it
\* and answers, or the call raises grpc's RpcError.
Channels == {"delivers", "fails"}

\* What the disk does on open(new_zip_fn, 'wb') and f.write: whether the file
\* opens, and how many bytes it takes before a write fails.
Disks == [opens : BOOLEAN, room : 0..MaxCode]

\* stdout_and_chunk: None, or the pair (stdout, output_chunk_start).
StdoutAndChunks == {NoneV, Some(<<"hello", 0>>), Some(<<"", 5>>)}

NoClientCall ==
  [op |-> "init", task_id |-> "", channel |-> "", before |-> NoneV,
   steps |-> <<>>, result |-> "", raised |-> "", logged |-> <<>>]

\* RemoteClientGrpc.post_task_update: what it asks of the stub (steps), what
\* it returns or raises and what it logs.
PostTaskUpdate(task_id, stdout_and_chunk) ==
  [steps |-> <<>>, result |-> "True", raised |-> "",
   logged |-> <<<<"Not yet implemented: posting task update", task_id>>>>
              \o (IF stdout_and_chunk # NoneV
                  THEN <<<<"stdout:", stdout_and_chunk.val[1]>>>>
                  ELSE <<>>)]

\* RemoteClientGrpc.post_task_error
PostTaskError ==
  [steps |-> <<>>, result |-> "True", raised |-> "",
   logged |-> <<<<"Not yet implemented: posting task error", "">>>>]

\* A mutant of GetBotCode: the file is opened for writing before the download.
GetBotCodeOpensFirst(file, channel, bot_code, disk) ==
  IF ~disk.opens THEN
    [file |-> file, steps |-> <<"open">>, result |-> "", raised |-> "IOError"]
  ELSE IF channel = "fails" THEN
    [file |-> Some(<<>>), steps |-> <<"open", "Update">>, result |-> "",
     raised |-> "RpcError"]
  ELSE IF Len(bot_code) > disk.room THEN
    [file |-> Some(SubSeq(bot_code, 1, disk.room)),
     steps |-> <<"open", "Update", "write">>, result |-> "",
     raised |-> "IOError"]
  ELSE
    [file |-> Some(bot_code), steps |-> <<"open", "Update", "write">>,
     result |-> "None", raised |-> ""]

\* RemoteClientGrpc.get_bot_code from a destination `file`: self._stub.Update
\* (line 136), then open(new_zip_fn, 'wb') (line 137), which creates or
\* truncates the file, then f.write (line 138). Nothing catches an error.
GetBotCode(file, channel, bot_code, disk) ==
  IF channel = "fails" THEN
    [file |-> file, steps |-> <<"Update">>, result |-> "",
     raised |-> "RpcError"]
  ELSE IF ~disk.opens THEN
    [file |-> file, steps |-> <<"Update", "open">>, result |-> "",
     raised |-> "IOError"]
  ELSE IF Len(bot_code) > disk.room THEN
    [file |-> Some(SubSeq(bot_code, 1, disk.room)),
     steps |-> <<"Update", "open", "write">>, result |-> "",
     raised |-> "IOError"]
  ELSE
    [file |-> Some(bot_code), steps |-> <<"Update", "open", "write">>,
     result |-> "None", raised |-> ""]

\* No call was made on the client; nothing is at new_zip_fn.
ClientIdle ==
  /\ new_zip = NoneV
  /\ clientCall = NoClientCall

\* The client is constructed; new_zip_fn names no file, or one left by an
\* earlier update.
ClientInit ==
  /\ new_zip \in {NoneV, Some(<<"old">>)}
  /\ clientCall = NoClientCall

ClientPostTaskUpdate(task_id, stdout_and_chunk, channel) ==
  LET r == PostTaskUpdate(task_id, stdout_and_chunk)
  IN /\ clientCall' = [op |-> "post_task_update", task_id |-> task_id,
                       channel |-> channel, before |-> new_zip,
                       steps |-> r.steps, result |-> r.result,
                       raised |-> r.raised, logged |-> r.logged]
     /\ UNCHANGED new_zip
     /\ UNCHANGED notClient

ClientPostTaskError(task_id, channel) ==
  LET r == PostTaskError
  IN /\ clientCall' = [op |-> "post_task_error", task_id |-> task_id,
                       channel |-> channel, before |-> new_zip,
                       steps |-> r.steps, result |-> r.result,
                       raised |-> r.raised, logged |-> r.logged]
     /\ UNCHANGED new_zip
     /\ UNCHANGED notClient

ClientGetBotCode(bot_version, channel, bot_code, disk) ==
  LET r == GetBotCode(new_zip, channel, bot_code, disk)
  IN /\ new_zip' = r.file
     /\ clientCall' = [op |-> "get_bot_code", task_id |-> "",
                       channel |-> channel, before |-> new_zip,
                       steps |-> r.steps, result |-> r.result,
                       raised |-> r.raised,
                       logged |-> <<<<"Updating to version:", bot_version>>>>]
     /\ UNCHANGED notClient

ClientPostsTaskUpdate ==
  \E task_id \in TaskIds, stdout_and_chunk \in StdoutAndChunks,
     channel \in Channels :
    ClientPostTaskUpdate(task_id, stdout_and_chunk, channel)

ClientPostsTaskError ==
  \E task_id \in TaskIds, channel \in Channels :
    ClientPostTaskError(task_id, channel)

ClientGetsBotCode ==
  \E bot_version \in BotVersions, channel \in Channels,
     bot_code \in BotCodes, disk \in Disks :
    ClientGetBotCode(bot_version, channel, bot_code, disk)

ClientNext ==
  \/ ClientPostsTaskUpdate
  \/ ClientPostsTaskError
  \/ ClientGetsBotCode

-----------------------------------------------------------------------------
(* The agent's poll loop.  The loop is the caller of RemoteClientGrpc.poll;  *)
(* it follows the state machine of the design: from Idle it polls, the       *)
(* outcome of the poll decides the state it enters, a poll that raises is    *)
(* left to the loop's owner to retry, the sleep timer and the end of the     *)
(* task lead back to Idle, and nothing leaves Updating, Terminated and       *)
(* Restarting within the process.                                            *)

AgentStates ==
  {"Idle", "Sleeping", "Updating", "Terminated", "Restarting", "Running"}

\* The state the loop enters for what poll() returned.
Entered(result) ==
  CASE result.tag = "sleep" -> "Sleeping"
    [] result.tag = "update" -> "Updating"
    [] result.tag = "terminate" -> "Terminated"
    [] result.tag = "restart" -> "Restarting"
    [] result.tag = "run" -> "Running"

AgentIdle ==
  /\ agentState = "Idle"
  /\ agentLast = ""

\* Idle --poll--> the state of the outcome.
AgentPoll(response) ==
  /\ agentState = "Idle"
  /\ Polled(response)
  /\ agentState' = IF pollCall'.raised = "" THEN Entered(pollCall'.result)
                   ELSE "Idle"
  /\ agentLast' = "poll"
  /\ UNCHANGED notAgent

\* Idle --poll--> Idle when the stub raises: the cycle is retried later.
AgentPollFails ==
  /\ agentState = "Idle"
  /\ StubRaised
  /\ agentState' = "Idle"
  /\ agentLast' = "poll"
  /\ UNCHANGED notAgent

\* Sleeping --timer elapses--> Idle
AgentTimerElapses ==
  /\ agentState = "Sleeping"
  /\ agentState' = "Idle"
  /\ agentLast' = "timer elapses"
  /\ UNCHANGED pollVars
  /\ UNCHANGED notAgent

\* Running --task finishes--> Idle
AgentTaskFinishes ==
  /\ agentState = "Running"
  /\ agentState' = "Idle"
  /\ agentLast' = "task finishes"
  /\ UNCHANGED pollVars
  /\ UNCHANGED notAgent

AgentPolls == \E response \in PollResponses : AgentPoll(response)

AgentNext ==
  \/ AgentPolls
  \/ AgentPollFails
  \/ AgentTimerElapses
  \/ AgentTaskFinishes

-----------------------------------------------------------------------------
(* api/platforms/android.py: class LowDevice *)

\* self._tries
Tries == 1

\* Bound: the length of a shell reply, in characters.
MaxReplyLen == 5

\* What one call of the transport (an AdbCommands method) does: it returns,
\* it raises one of LowDevice._ERRORS (CommonUsbError, libusb1.USBError), or
\* it raises AdbCommandFailureException.
TransportOutcomes == {"ok", "usb_error", "cmd_failure"}

\* How the transport behaves on each attempt of one retry loop.
Plans == [1..Tries -> TransportOutcomes]

\* The operations that share the retry loop of lines 226-351, the value each
\* returns when the transport call returns, and the value after the loop.
RetryOps == {"listdir", "stat", "pull", "pull_content", "push",
             "push_content", "reboot", "remount"}

\* Those that assert their path argument starts with '/'.
PathOps == {"listdir", "stat", "pull", "pull_content", "push", "push_content"}

Success(op) ==
  CASE op = "listdir" -> "entries"
    [] op = "stat" -> "(mode, size, mtime)"
    [] op = "pull_content" -> "content"
    [] OTHER -> "True"

Sentinel(op) ==
  CASE op \in {"listdir", "pull_content"} -> "None"
    [] op = "stat" -> "(None, None, None)"
    [] OTHER -> "False"

\* A mutant of Retry: AdbCommandFailureException is handled as self._ERRORS
\* are, by _try_reset and the next attempt.
RECURSIVE RetryThroughFailure(_, _)
RetryThroughFailure(plan, i) ==
  IF i > Tries THEN [attempts |-> Tries, resets |-> Tries, end |-> "exhausted"]
  ELSE IF plan[i] = "ok" THEN [attempts |-> i, resets |-> i - 1, end |-> "ok"]
  ELSE RetryThroughFailure(plan, i + 1)

\* The retry loop `for _ in xrange(self._tries)` from attempt i on, for a
\* body that returns when the transport returns, breaks on
\* AdbCommandFailureException and calls _try_reset on self._ERRORS.
\* attempts: transport calls made; resets: calls of _try_reset.
RECURSIVE Retry(_, _)
Retry(plan, i) ==
  IF i > Tries THEN [attempts |-> Tries, resets |-> Tries, end |-> "exhausted"]
  ELSE IF plan[i] = "ok" THEN [attempts |-> i, resets |-> i - 1, end |-> "ok"]
  ELSE IF plan[i] = "cmd_failure"
    THEN [attempts |-> i, resets |-> i - 1, end |-> "break"]
  ELSE Retry(plan, i + 1)

\* A mutant of Callbacks: _try_reset only logs.
CallbacksNone(callback, resets) == 0

\* LowDevice._try_reset, lines 487-488: the number of times the on_error
\* callback runs in `resets` calls of _try_reset.
Callbacks(callback, resets) == IF callback THEN resets ELSE 0

\* LowDevice._try_reset, lines 489-490: _has_reset after `resets` calls.
HasReset(before, resets) == before \/ resets > 0

NoCall == [op |-> "init", valid |-> FALSE, argsOK |-> TRUE, plan |-> <<>>,
           attempts |-> 0, resets |-> 0, callbacks |-> 0, sent |-> <<>>,
           result |-> "", raised |-> ""]

\* One of listdir, stat, pull, pull_content, push, push_content, reboot,
\* remount, on a handle with adb_cmd = cmd_ and _on_error = callback.
RetryOp(op, argsOK, plan, cmd_, callback) ==
  IF op \in PathOps /\ ~argsOK THEN
    [NoCall EXCEPT !.op = op, !.valid = cmd_ # "None", !.argsOK = FALSE,
                   !.plan = plan, !.raised = "AssertionError"]
  ELSE IF cmd_ = "None" THEN
    [NoCall EXCEPT !.op = op, !.plan = plan, !.result = Sentinel(op)]
  ELSE
    LET r == Retry(plan, 1)
    IN [NoCall EXCEPT !.op = op, !.valid = TRUE, !.plan = plan,
                      !.attempts = r.attempts, !.resets = r.resets,
                      !.callbacks = Callbacks(callback, r.resets),
                      !.result = IF r.end = "ok" THEN Success(op)
                                 ELSE Sentinel(op)]

\* ---- shell_raw and shell

\* The characters of a shell reply.
ReplyChars == {"h", "i", "CR", "LF", "0", "1"}

Digits == {"0", "1"}

\* All strings of at most n characters.
Strings(n) == UNION {[1..k -> ReplyChars] : k \in 0..n}

\* A command: its text and its length in bytes.
ShellCmds == {[text |-> "echo hi", len |-> 7], [text |-> "id", len |-> 2],
              [text |-> "a 497 byte script", len |-> 497],
              [text |-> "a 498 byte script", len |-> 498]}

\* ' ;echo -e "\n$?"', the exit-code probe of line 391, and its length.
Probe == " ;echo -e \"\\n$?\""

ProbeLen == 15

\* Line 392: the longest complete command.
MaxCmdLen == 512

\* out.replace('\r\n', '\n')
RECURSIVE ReplaceCRLF(_)
ReplaceCRLF(s) ==
  IF Len(s) = 0 THEN s
  ELSE IF Len(s) >= 2 /\ s[1] = "CR" /\ s[2] = "LF"
    THEN <<"LF">> \o ReplaceCRLF(SubSeq(s, 3, Len(s)))
  ELSE <<s[1]>> \o ReplaceCRLF(Tail(s))

\* The index of the last '\n' of s, 0 when it has none.
LastLF(s) ==
  IF \E i \in 1..Len(s) : s[i] = "LF"
    THEN CHOOSE i \in 1..Len(s) :
           s[i] = "LF" /\ \A j \in (i + 1)..Len(s) : s[j] # "LF"
    ELSE 0

\* A mutant of RSplit: split('\n', 1), which cuts at the first '\n'.
SplitFirst(s) ==
  IF \A i \in 1..Len(s) : s[i] # "LF" THEN <<s>>
  ELSE LET i == CHOOSE k \in 1..Len(s) :
                  s[k] = "LF" /\ \A j \in 1..(k - 1) : s[j] # "LF"
       IN <<SubSeq(s, 1, i - 1), SubSeq(s, i + 1, Len(s))>>

\* s.rsplit('\n', 1): one part when s has no '\n'.
RSplit(s) ==
  IF LastLF(s) = 0 THEN <<s>>
  ELSE <<SubSeq(s, 1, LastLF(s) - 1), SubSeq(s, LastLF(s) + 1, Len(s))>>

\* s.strip() for the whitespace a reply holds.
RECURSIVE Strip(_)
Strip(s) ==
  IF Len(s) = 0 THEN s
  ELSE IF s[1] \in {"CR", "LF"} THEN Strip(Tail(s))
  ELSE IF s[Len(s)] \in {"CR", "LF"} THEN Strip(SubSeq(s, 1, Len(s) - 1))
  ELSE s

\* The value of a string of digits.
RECURSIVE Decimal(_)
Decimal(s) ==
  IF Len(s) = 0 THEN 0
  ELSE 10 * Decimal(SubSeq(s, 1, Len(s) - 1))
       + (IF s[Len(s)] = "1" THEN 1 ELSE 0)

\* int(s): surrounding whitespace is ignored; NoneV stands for ValueError.
IntOf(s) ==
  LET t == Strip(s)
  IN IF Len(t) > 0 /\ \A i \in 1..Len(t) : t[i] \in Digits
       THEN Some(Decimal(t)) ELSE NoneV

ShellResult(out, code) == [out |-> out, code |-> code]

\* A mutant of ParseReply: a reply without its trailing newline is returned
\* as output without an exit code.
ParseReplyLenient(out) ==
  IF Len(out) = 0 \/ ReplaceCRLF(out)[Len(ReplaceCRLF(out))] # "LF"
    THEN [result |-> ShellResult(Some(out), NoneV), raised |-> ""]
  ELSE
    LET n     == ReplaceCRLF(out)
        parts == RSplit(SubSeq(n, 1, Len(n) - 1))
    IN IF Len(parts) < 2
         THEN [result |-> "", raised |-> "IndexError"]
       ELSE IF IntOf(parts[2]) = NoneV
         THEN [result |-> "", raised |-> "ValueError"]
       ELSE [result |-> ShellResult(Some(parts[1]), IntOf(parts[2])),
             raised |-> ""]

\* Lines 396-404 of shell_raw: the reply `out` turned into (stdout, exit_code).
ParseReply(out) ==
  IF Len(out) = 0 THEN [result |-> ShellResult(Some(out), NoneV), raised |-> ""]
  ELSE
    LET n == ReplaceCRLF(out)
    IN IF n[Len(n)] # "LF"
         THEN [result |-> "", raised |-> "AssertionError"]
       ELSE
         LET parts == RSplit(SubSeq(n, 1, Len(n) - 1))
         IN IF Len(parts) < 2
              THEN [result |-> "", raised |-> "IndexError"]
            ELSE IF IntOf(parts[2]) = NoneV
              THEN [result |-> "", raised |-> "ValueError"]
            ELSE [result |-> ShellResult(Some(parts[1]), IntOf(parts[2])),
                  raised |-> ""]

\* LowDevice.shell_raw(cmd) when the transport's Shell() behaves as `outcome`
\* and answers `reply`: the commands sent, and the return value or exception.
ShellRaw(cmd, cmd_, outcome, reply) ==
  IF cmd_ = "None" THEN
    [sent |-> <<>>, result |-> ShellResult(NoneV, NoneV), raised |-> ""]
  ELSE IF cmd.len + ProbeLen > MaxCmdLen THEN
    [sent |-> <<>>, result |-> "", raised |-> "AssertionError"]
  ELSE IF outcome = "usb_error" THEN
    [sent |-> <<<<cmd.text, Probe>>>>, result |-> "", raised |-> "USBError"]
  ELSE IF outcome = "cmd_failure" THEN
    [sent |-> <<<<cmd.text, Probe>>>>, result |-> "",
     raised |-> "AdbCommandFailureException"]
  ELSE
    [sent |-> <<<<cmd.text, Probe>>>>] @@ ParseReply(reply)

\* LowDevice.shell(cmd) from attempt i on: shell_raw is tried again after
\* each of self._ERRORS; everything else it returns or raises ends the loop.
RECURSIVE ShellFrom(_, _, _, _, _)
ShellFrom(cmd, cmd_, plan, reply, i) ==
  IF i > Tries THEN
    [sent |-> <<>>, resets |-> 0,
     result |-> ShellResult(NoneV, NoneV), raised |-> ""]
  ELSE
    LET r == ShellRaw(cmd, cmd_, plan[i], reply)
    IN IF r.raised = "USBError"
         THEN LET rest == ShellFrom(cmd, cmd_, plan, reply, i + 1)
              IN [rest EXCEPT !.sent = r.sent \o rest.sent,
                              !.resets = rest.resets + 1]
         ELSE [sent |-> r.sent, resets |-> 0, result |-> r.result,
               raised |-> r.raised]

Shell(cmd, cmd_, plan, reply) == ShellFrom(cmd, cmd_, plan, reply, 1)

\* LowDevice.is_root(): the answer ("True", "False" or "None") drawn from
\* shell('id'); what shell raises goes through.
IsRoot(cmd_, plan, reply) ==
  LET r == Shell([text |-> "id", len |-> 2], cmd_, plan, reply)
  IN [sent |-> r.sent, resets |-> r.resets, raised |-> r.raised,
      result |->
        IF r.raised # "" THEN ""
        ELSE IF r.result.code # Some(0) \/ r.result.out = NoneV
                \/ r.result.out = Some(<<>>) THEN "None"
        ELSE IF r.result.out.val[1] = "out=0(root)" THEN "True"
        ELSE "False"]

\* What adb_cmd.Root() answers (lines 418-423).
RootAnswers == {"adbd is already running as root",
                "adbd cannot run as root in production builds",
                "restarting adbd as root"}

\* LowDevice.reset_adbd_as_root() from attempt i on.  The loop body calls
\* self.adb_cmd.Root() without testing self.adb_cmd, and catches self._ERRORS
\* only.
RECURSIVE ResetAsRootFrom(_, _, _, _, _, _)
ResetAsRootFrom(cmd_, plan, answer, idPlan, reply, i) ==
  IF i > Tries THEN
    [attempts |-> 0, resets |-> 0, result |-> "False", raised |-> ""]
  ELSE IF cmd_ = "None" THEN
    [attempts |-> 0, resets |-> 0, result |-> "", raised |-> "AttributeError"]
  ELSE IF plan[i] = "usb_error" THEN
    LET rest == ResetAsRootFrom(cmd_, plan, answer, idPlan, reply, i + 1)
    IN [rest EXCEPT !.attempts = rest.attempts + 1, !.resets = rest.resets + 1]
  ELSE IF plan[i] = "cmd_failure" THEN
    [attempts |-> 1, resets |-> 0, result |-> "",
     raised |-> "AdbCommandFailureException"]
  ELSE IF answer = "adbd is already running as root" THEN
    [attempts |-> 1, resets |-> 0, result |-> "True", raised |-> ""]
  ELSE IF answer = "adbd cannot run as root in production builds" THEN
    [attempts |-> 1, resets |-> 0, result |-> "False", raised |-> ""]
  ELSE
    LET r == IsRoot(cmd_, idPlan, reply)
    IN [attempts |-> 1 + Len(r.sent), resets |-> r.resets,
        result |-> IF r.raised # "" THEN ""
                   ELSE IF r.result = "True" THEN "True" ELSE "False",
        raised |-> r.raised]

ResetAsRoot(cmd_, plan, answer, idPlan, reply) ==
  ResetAsRootFrom(cmd_, plan, answer, idPlan, reply, 1)

\* LowDevice.reset_adbd_as_user() from attempt i on.  Line 438 reads
\* self.cmd, an attribute LowDevice does not have (it has adb_cmd): the
\* first pass of the loop raises AttributeError before any transport call.
ResetAsUserFrom(cmd_, plan, i) ==
  IF i > Tries THEN
    [attempts |-> 0, resets |-> 0, result |-> "False", raised |-> ""]
  ELSE
    [attempts |-> 0, resets |-> 0, result |-> "", raised |-> "AttributeError"]

ResetAsUser(cmd_, plan) == ResetAsUserFrom(cmd_, plan, 1)

-----------------------------------------------------------------------------
(* Calls on a LowDevice *)

\* LowDevice.__init__(adb_cmd, port_path, on_error); _set_serial_number calls
\* _try_reset when reading the serial number faults.
LowConstructed(cmd_, callback, serialFault, reply) ==
  /\ adb_cmd = cmd_
  /\ on_error = callback
  /\ has_reset = (cmd_ # "None" /\ serialFault)
  /\ adbReply = reply
  /\ lowCall = NoCall

\* A LowDevice while another subsystem is looked at.
LowIdle == LowConstructed("None", FALSE, FALSE, <<>>)

\* listdir, stat, pull, pull_content, push, push_content, reboot, remount.
LowRetryOp(op, argsOK, plan) ==
  LET c == RetryOp(op, argsOK, plan, adb_cmd, on_error)
  IN /\ lowCall' = c
     /\ has_reset' = HasReset(has_reset, c.resets)
     /\ UNCHANGED <<adb_cmd, on_error, adbReply>>
     /\ UNCHANGED notLow

\* LowDevice.shell_raw(cmd)
LowShellRaw(cmd, outcome) ==
  LET r == ShellRaw(cmd, adb_cmd, outcome, adbReply)
  IN /\ lowCall' = [NoCall EXCEPT !.op = "shell_raw", !.valid = adb_cmd # "None",
                                  !.argsOK = cmd.len + ProbeLen <= MaxCmdLen,
                                  !.plan = <<outcome>>,
                                  !.attempts = Len(r.sent), !.sent = r.sent,
                                  !.result = r.result, !.raised = r.raised]
     /\ UNCHANGED <<adb_cmd, on_error, has_reset, adbReply>>
     /\ UNCHANGED notLow

\* LowDevice.shell(cmd)
LowShell(cmd, plan) ==
  LET r == Shell(cmd, adb_cmd, plan, adbReply)
  IN /\ lowCall' = [NoCall EXCEPT !.op = "shell", !.valid = adb_cmd # "None",
                                  !.argsOK = cmd.len + ProbeLen <= MaxCmdLen,
                                  !.plan = plan,
                                  !.attempts = Len(r.sent), !.sent = r.sent,
                                  !.resets = r.resets,
                                  !.callbacks = Callbacks(on_error, r.resets),
                                  !.result = r.result, !.raised = r.raised]
     /\ has_reset' = HasReset(has_reset, r.resets)
     /\ UNCHANGED <<adb_cmd, on_error, adbReply>>
     /\ UNCHANGED notLow

LowCallsRetryOp ==
  \E op \in RetryOps, argsOK \in BOOLEAN, plan \in Plans :
    LowRetryOp(op, argsOK, plan)

LowCallsShellRaw ==
  \E cmd \in ShellCmds, outcome \in TransportOutcomes : LowShellRaw(cmd, outcome)

LowCallsShell == \E cmd \in ShellCmds, plan \in Plans : LowShell(cmd, plan)

\* LowDevice.reset_adbd_as_root()
LowResetAsRoot(plan, answer, idPlan) ==
  LET r == ResetAsRoot(adb_cmd, plan, answer, idPlan, adbReply)
  IN /\ lowCall' = [NoCall EXCEPT !.op = "reset_adbd_as_root",
                                  !.valid = adb_cmd # "None", !.plan = plan,
                                  !.attempts = r.attempts, !.resets = r.resets,
                                  !.callbacks = Callbacks(on_error, r.resets),
                                  !.result = r.result, !.raised = r.raised]
     /\ has_reset' = HasReset(has_reset, r.resets)
     /\ UNCHANGED <<adb_cmd, on_error, adbReply>>
     /\ UNCHANGED notLow

\* LowDevice.reset_adbd_as_user()
LowResetAsUser(plan) ==
  LET r == ResetAsUser(adb_cmd, plan)
  IN /\ lowCall' = [NoCall EXCEPT !.op = "reset_adbd_as_user",
                                  !.valid = adb_cmd # "None", !.plan = plan,
                                  !.attempts = r.attempts, !.resets = r.resets,
                                  !.callbacks = Callbacks(on_error, r.resets),
                                  !.result = r.result, !.raised = r.raised]
     /\ has_reset' = HasReset(has_reset, r.resets)
     /\ UNCHANGED <<adb_cmd, on_error, adbReply>>
     /\ UNCHANGED notLow

\* A mutant of Close: the handle keeps its connection after closing it.
CloseKeepsHandle(cmd_) ==
  [adb_cmd |-> cmd_, closed |-> IF cmd_ # "None" THEN 1 ELSE 0]

\* LowDevice.close(), lines 221-224: the new adb_cmd and the number of
\* Close() calls made on the connection.
Close(cmd_) ==
  [adb_cmd |-> "None", closed |-> IF cmd_ # "None" THEN 1 ELSE 0]

\* The connection of a new handle was never closed.
ConnIdle == closes = 0

\* LowDevice.close()
LowClose ==
  LET r == Close(adb_cmd)
  IN /\ adb_cmd' = r.adb_cmd
     /\ closes' = closes + r.closed
     /\ lowCall' = [NoCall EXCEPT !.op = "close", !.valid = adb_cmd # "None"]
     /\ UNCHANGED <<on_error, has_reset, adbReply>>
     /\ UNCHANGED notClose

LowCallsResetAsRoot ==
  \E plan \in Plans, answer \in RootAnswers, idPlan \in Plans :
    LowResetAsRoot(plan, answer, idPlan)

LowCallsResetAsUser == \E plan \in Plans : LowResetAsUser(plan)

\* The replies the device gives in the specification of the whole LowDevice:
\* 'id' as root and as shell, the prefix is_root() looks for, a reply that
\* failed, one without a trailing newline, and none.
SampleReplies ==
  {<<>>,
   <<"uid=0(root)", "LF", "0", "LF">>,
   <<"uid=2000(shell)", "CR", "LF", "0", "CR", "LF">>,
   <<"out=0(root)", "LF", "0", "LF">>,
   <<"h", "i", "LF", "1", "LF">>,
   <<"h", "i">>}

LowInit ==
  \E cmd_ \in {"conn", "None"}, callback \in BOOLEAN, serialFault \in BOOLEAN,
     reply \in SampleReplies :
    LowConstructed(cmd_, callback, serialFault, reply)

LowNext ==
  \/ LowCallsRetryOp
  \/ LowCallsShellRaw
  \/ LowCallsShell
  \/ LowCallsResetAsRoot
  \/ LowCallsResetAsUser
  \/ LowClose

\* shell_raw and shell on a connected handle whose transport returns: the
\* reply is any string of at most MaxReplyLen characters.
ShellInit ==
  \E reply \in Strings(MaxReplyLen) : LowConstructed("conn", TRUE, FALSE, reply)

EchoHi == [text |-> "echo hi", len |-> 7]

ShellRawReturns == LowShellRaw(EchoHi, "ok")

ShellReturns == LowShell(EchoHi, [i \in 1..Tries |-> "ok"])

ShellNext == ShellRawReturns \/ ShellReturns

-----------------------------------------------------------------------------
(* api/platforms/android.py: DeviceCache, _PerDeviceCache, _init_cache,
   open_device, get_devices, close_devices *)

\* Bound: the number of OS images a device goes through (it starts with
\* image 1 and each reflash installs the next one).
MaxImage == 2

\* The port paths of the host, in the order FindDevices yields them.
PortOrder == <<"1/2", "1/3">>

Ports == {PortOrder[i] : i \in DOMAIN PortOrder}

KNOWN_CPU_SCALING_GOVERNOR_VALUES ==
  {"conservative", "interactive", "ondemand", "performance", "powersave",
   "userspace"}

\* The six queries _init_cache makes, lines 113-146.
Queries == {"external_storage", "build_prop", "su", "governors", "max_freq",
            "min_freq"}

\* The queries of one priming that fail: none; the stat of su alone (the
\* cache is complete, with has_su False); the pull of build.prop alone (the
\* cache lacks a field); all of them (the device went away).
PrimeFaults == {{}, {"su"}, {"build_prop"}, Queries}

\* What a device carrying OS image i answers to the six queries: odd images
\* are builds with /system/xbin/su.
BuildProps(i) == <<"ro.build.id", i>>

HasSu(i) == i % 2 = 1

Governors(i) == {"interactive", "performance", "userspace"}

\* DeviceCache(...) as _init_cache builds it from a device carrying `image`
\* (0: no device behind the handle) when the queries in `failed` fail.  The
\* field `image` is not in the code: it records the image the facts are from.
PrimedCache(image, failed) ==
  [build_props |->
     IF "build_prop" \in failed THEN NoneV ELSE Some(BuildProps(image)),
   external_storage_path |->
     IF "external_storage" \in failed THEN NoneV ELSE Some("/sdcard"),
   has_su |-> IF "su" \in failed THEN FALSE ELSE HasSu(image),
   available_governors |->
     IF "governors" \in failed THEN KNOWN_CPU_SCALING_GOVERNOR_VALUES
     ELSE Governors(image),
   cpuinfo_max_freq |->
     IF "max_freq" \in failed THEN NoneV ELSE Some(1500000),
   cpuinfo_min_freq |->
     IF "min_freq" \in failed THEN NoneV ELSE Some(300000),
   image |-> image]

\* A mutant of AllFieldsSet: the build properties are not looked at.
AllFieldsSetButProps(cache) ==
  /\ cache.external_storage_path # NoneV
  /\ cache.cpuinfo_max_freq # NoneV
  /\ cache.cpuinfo_min_freq # NoneV

\* Line 152: all(i is not None for i in cache._asdict().itervalues())
AllFieldsSet(cache) ==
  /\ cache.build_props # NoneV
  /\ cache.external_storage_path # NoneV
  /\ cache.cpuinfo_max_freq # NoneV
  /\ cache.cpuinfo_min_freq # NoneV

\* _PerDeviceCache.get(device): NoneV when the port path has no entry.
CacheGet(per, port_path) ==
  IF port_path \in DOMAIN per THEN Some(per[port_path]) ELSE NoneV

\* _PerDeviceCache.set(device, cache)
CacheSet(per, port_path, cache) == DictSet(per, port_path, cache)

\* {d.port_path: d for d in devices}: the last device of a port path wins.
DeviceKeys(devs) ==
  [q \in {devs[i].port_path : i \in DOMAIN devs} |->
     devs[CHOOSE i \in DOMAIN devs :
            /\ devs[i].port_path = q
            /\ \A j \in DOMAIN devs : devs[j].port_path = q => j <= i]]

\* A mutant of Trim: the validity test is inverted, so the entries of the
\* valid devices are the ones removed.
TrimDropsValid(per, devs) ==
  [q \in {k \in DOMAIN per :
            ~(k \in DOMAIN DeviceKeys(devs) /\ DeviceKeys(devs)[k].valid)}
     |-> per[q]]

\* A mutant of Trim: an entry is kept whenever its port path is enumerated.
TrimKeepInvalid(per, devs) ==
  [q \in {k \in DOMAIN per : k \in DOMAIN DeviceKeys(devs)} |-> per[q]]

\* _PerDeviceCache.trim(devices), lines 70-75.
Trim(per, devs) ==
  [q \in {k \in DOMAIN per :
            k \in DOMAIN DeviceKeys(devs) /\ DeviceKeys(devs)[k].valid}
     |-> per[q]]

\* _init_cache(device), lines 109-154, for a device at port_path whose
\* connection is `valid` and that carries `image`: the cache it returns,
\* whether it came from _per_device_cache, and the registry afterwards.  A
\* handle without connection answers every query with its sentinel.
InitCache(per, port_path, valid, image, failed) ==
  LET found == CacheGet(per, port_path)
      cache == PrimedCache(IF valid THEN image ELSE 0,
                           IF valid THEN failed ELSE Queries)
  IN IF found # NoneV
       THEN [cache |-> found.val, hit |-> TRUE, per |-> per]
       ELSE [cache |-> cache, hit |-> FALSE,
             per |-> IF AllFieldsSet(cache)
                       THEN CacheSet(per, port_path, cache) ELSE per]

\* How a device behaves while get_devices decides whether to switch adbd to
\* root: whether its adbd runs as root, the transport's behaviour on 'id' and
\* on Root(), and their answers ('id' prints uid=0(root) ... as root).
RootBehaviours ==
  {[root |-> TRUE,
    idPlan |-> [i \in 1..Tries |-> "ok"],
    reply |-> <<"uid=0(root)", "LF", "0", "LF">>,
    plan |-> [i \in 1..Tries |-> "ok"],
    answer |-> "adbd is already running as root"],
   [root |-> FALSE,
    idPlan |-> [i \in 1..Tries |-> "ok"],
    reply |-> <<"uid=2000(shell)", "LF", "0", "LF">>,
    plan |-> [i \in 1..Tries |-> "ok"],
    answer |-> "restarting adbd as root"],
   [root |-> FALSE,
    idPlan |-> [i \in 1..Tries |-> "usb_error"],
    reply |-> <<>>,
    plan |-> [i \in 1..Tries |-> "usb_error"],
    answer |-> "restarting adbd as root"],
   [root |-> FALSE,
    idPlan |-> [i \in 1..Tries |-> "ok"],
    reply |-> <<"uid=2000(shell)", "LF", "0", "LF">>,
    plan |-> [i \in 1..Tries |-> "cmd_failure"],
    answer |-> "restarting adbd as root"]}

\* Lines 708-709 of fn: `if device.cache.has_su and not device.is_root():
\* device.reset_adbd_as_root()`.  escalated: reset_adbd_as_root was called;
\* raised: the exception that leaves fn, "" when none.
Escalate(cache, cmd_, b) ==
  IF ~cache.has_su THEN [escalated |-> FALSE, raised |-> ""]
  ELSE
    LET r == IsRoot(cmd_, b.idPlan, b.reply)
    IN IF r.raised # "" THEN [escalated |-> FALSE, raised |-> r.raised]
       ELSE IF r.result = "True" THEN [escalated |-> FALSE, raised |-> ""]
       ELSE [escalated |-> TRUE,
             raised |-> ResetAsRoot(cmd_, b.plan, b.answer, b.idPlan,
                                    b.reply).raised]

\* The devices of a finished pmap, in the order of the handles.
RECURSIVE DeviceList(_, _)
DeviceList(opened, i) ==
  IF i > Len(PortOrder) THEN <<>>
  ELSE IF PortOrder[i] \in DOMAIN opened
    THEN <<opened[PortOrder[i]]>> \o DeviceList(opened, i + 1)
  ELSE DeviceList(opened, i + 1)

Idle == [pc |-> "idle", handles |-> {}, opened |-> EmptyDict, raised |-> ""]

\* The state before the first discovery: initialize() has been called or
\* not, every port holds a device with its first image, nothing is cached.
DiscConstructed(keys) ==
  /\ adb_keys = keys
  /\ usb = [q \in Ports |-> [plugged |-> TRUE, image |-> 1]]
  /\ per_device = EmptyDict
  /\ disc = Idle
  /\ devices = NoneV
  /\ discLast = "init"

DiscIdle == DiscConstructed(FALSE)

DiscInit == \E keys \in BOOLEAN : DiscConstructed(keys)

\* get_devices(bot), lines 683-700: None without keys; otherwise the handles
\* FindDevices yields, a device whose enumeration raised USBErrorOther being
\* left out.  The caller has closed the devices of the previous call.
GetDevicesBegin ==
  /\ disc.pc = "idle"
  /\ devices = NoneV
  /\ IF ~adb_keys
       THEN /\ devices' = NoneV
            /\ discLast' = "get_devices returned None"
            /\ UNCHANGED disc
       ELSE /\ \E handles \in SUBSET {q \in Ports : usb[q].plugged} :
                 disc' = [pc |-> "opening", handles |-> handles,
                          opened |-> EmptyDict, raised |-> ""]
            /\ discLast' = "get_devices enumerated"
            /\ UNCHANGED devices
  /\ UNCHANGED <<adb_keys, usb, per_device>>
  /\ UNCHANGED notDisc

\* fn(handle), lines 702-710, one worker of parallel.pmap: open_device_low,
\* _init_cache, HighDevice(device, cache), and the switch to root.
OpenDevice(port_path, opens, failed, b) ==
  /\ disc.pc = "opening"
  /\ port_path \in disc.handles
  /\ LET valid == usb[port_path].plugged /\ opens
         c     == InitCache(per_device, port_path, valid,
                            usb[port_path].image, failed)
         e     == Escalate(c.cache, IF valid THEN "conn" ELSE "None", b)
         high  == [port_path |-> port_path, valid |-> valid,
                   cache |-> c.cache, hit |-> c.hit,
                   image |-> IF valid THEN usb[port_path].image ELSE 0,
                   escalated |-> e.escalated, root |-> valid /\ b.root]
     IN /\ per_device' = c.per
        /\ disc' = [disc EXCEPT
                      !.handles = @ \ {port_path},
                      !.opened = DictSet(@, port_path, high),
                      !.raised = IF e.raised # "" THEN e.raised ELSE @]
  /\ discLast' = "open_device"
  /\ UNCHANGED <<adb_keys, usb, devices>>
  /\ UNCHANGED notDisc

\* get_devices(bot), lines 712-714, once every worker is done: an exception
\* of a worker leaves get_devices before the trim; otherwise the cache is
\* trimmed against the devices and they are returned.
GetDevicesEnd ==
  /\ disc.pc = "opening"
  /\ disc.handles = {}
  /\ IF disc.raised # ""
       THEN /\ discLast' = "get_devices raised"
            /\ UNCHANGED <<per_device, devices>>
       ELSE /\ per_device' = Trim(per_device, DeviceList(disc.opened, 1))
            /\ devices' = Some(DeviceList(disc.opened, 1))
            /\ discLast' = "get_devices returned"
  /\ disc' = Idle
  /\ UNCHANGED <<adb_keys, usb>>
  /\ UNCHANGED notDisc

\* close_devices(devices) on what get_devices returned: every connection is
\* closed and the caller drops the list.
CloseDevices ==
  /\ disc.pc = "idle"
  /\ devices # NoneV
  /\ devices' = NoneV
  /\ discLast' = "close_devices"
  /\ UNCHANGED <<adb_keys, usb, per_device, disc>>
  /\ UNCHANGED notDisc

\* The world: a device is unplugged, reflashed while unplugged, plugged back.
Unplug(port_path) ==
  /\ usb[port_path].plugged
  /\ usb' = [usb EXCEPT ![port_path].plugged = FALSE]
  /\ UNCHANGED <<adb_keys, per_device, disc, devices, discLast>>
  /\ UNCHANGED notDisc

Reflash(port_path) ==
  /\ ~usb[port_path].plugged
  /\ usb[port_path].image < MaxImage
  /\ usb' = [usb EXCEPT ![port_path].image = @ + 1]
  /\ UNCHANGED <<adb_keys, per_device, disc, devices, discLast>>
  /\ UNCHANGED notDisc

Replug(port_path) ==
  /\ ~usb[port_path].plugged
  /\ usb' = [usb EXCEPT ![port_path].plugged = TRUE]
  /\ UNCHANGED <<adb_keys, per_device, disc, devices, discLast>>
  /\ UNCHANGED notDisc

DiscOpens ==
  \E q \in Ports, opens \in BOOLEAN, failed \in PrimeFaults,
     b \in RootBehaviours : OpenDevice(q, opens, failed, b)

DiscNext ==
  \/ GetDevicesBegin
  \/ DiscOpens
  \/ GetDevicesEnd
  \/ CloseDevices
  \/ \E q \in Ports : Unplug(q)
  \/ \E q \in Ports : Reflash(q)
  \/ \E q \in Ports : Replug(q)

-----------------------------------------------------------------------------
(* api/platforms/android.py: HighDevice.set_cpu_scaling_governor and
   HighDevice.set_cpu_speed, over the LowDevice of the handle *)

GovernorPath == "/sys/devices/system/cpu/cpu0/cpufreq/scaling_governor"

SetSpeedPath == "/sys/devices/system/cpu/cpu0/cpufreq/scaling_setspeed"

\* The speeds set_cpu_speed accepts (line 859).
MinSpeed == 10000

MaxSpeed == 10000000

DigitChars == <<"0", "1", "2", "3", "4", "5", "6", "7", "8", "9">>

\* str(n) and '%d' % n, for n >= 0.
RECURSIVE DecStr(_)
DecStr(n) ==
  IF n < 10 THEN <<DigitChars[n + 1]>>
  ELSE DecStr(n \div 10) \o <<DigitChars[(n % 10) + 1]>>

\* len(governor)
NameLen(governor) ==
  CASE governor \in {"conservative", "performance"} -> 12
    [] governor = "interactive" -> 11
    [] governor \in {"powersave", "userspace"} -> 9
    [] OTHER -> 8

\* 'echo "%s" > %s' % (governor, path), line 839.
EchoCmd(governor) ==
  [text |-> <<"echo \"", governor, "\" > ", GovernorPath>>,
   len |-> 6 + NameLen(governor) + 4 + 53]

\* The calls one set_cpu_speed makes on the handle, in order: at most four
\* for the governor (pull_content, push_content, shell, pull_content), then
\* push_content and pull_content.
PrimitiveCalls == 1..6

\* What the transport does during one call on the HighDevice: a plan for each
\* call made on the handle.  The calls in F fault, all in the same way.
FaultPlans ==
  {[k \in PrimitiveCalls |->
      [i \in 1..Tries |-> IF k \in F THEN fault ELSE "ok"]] :
     F \in SUBSET PrimitiveCalls, fault \in TransportOutcomes \ {"ok"}}

\* One request to the device, as the call log keeps it: the content written,
\* or the content read.
Asked(prim, path, content, result) ==
  [prim |-> prim, path |-> path, content |-> content, result |-> result]

\* The state a call on the HighDevice threads through its steps: the files
\* of the device, the requests made so far, the calls of _try_reset so far
\* and the number of the next call on the handle.
Threaded(files) == [sysfs |-> files, log |-> <<>>, resets |-> 0, k |-> 1]

\* What pull_content(path) leaves and returns when the handle's
\* pull_content ended as c: the content, or None.
Pulled(st, path, c) ==
  [st |-> [st EXCEPT
             !.log = Append(@, Asked("pull_content", path,
                                     IF c.result = Success("pull_content")
                                       THEN st.sysfs[path] ELSE <<>>,
                                     c.result)),
             !.resets = @ + c.resets, !.k = @ + 1],
   value |-> IF c.result = Success("pull_content")
               THEN Some(st.sysfs[path]) ELSE NoneV]

\* HighDevice.pull_content(path) -> LowDevice.pull_content
PullContent(st, path, env) ==
  Pulled(st, path,
         RetryOp("pull_content", TRUE, env.plans[st.k], adb_cmd, on_error))

\* What push_content(path, content) leaves and returns when the handle's
\* push_content ended as c: True or False.  The file takes the content when
\* the push went through and the kernel honours the write.
Pushed(st, path, content, c, honours) ==
  [st |-> [st EXCEPT
             !.sysfs = IF c.result = Success("push_content") /\ honours
                         THEN [@ EXCEPT ![path] = content] ELSE @,
             !.log = Append(@, Asked("push_content", path, content, c.result)),
             !.resets = @ + c.resets, !.k = @ + 1],
   value |-> c.result = Success("push_content")]

\* HighDevice.push_content(path, content) -> LowDevice.push_content
PushContent(st, path, content, env) ==
  Pushed(st, path, content,
         RetryOp("push_content", TRUE, env.plans[st.k], adb_cmd, on_error),
         env.honours)

\* What shell('echo "<governor>" > <path>') leaves and returns when the
\* handle's shell ended as r: the exit code, or what shell raised.  echo
\* writes the governor and a newline when the command ran, exited with 0 and
\* the kernel honours the write.
Echoed(st, governor, r, honours) ==
  [st |-> [st EXCEPT
             !.sysfs = IF r.raised = "" /\ r.result.code = Some(0) /\ honours
                         THEN [@ EXCEPT ![GovernorPath] = <<governor, "LF">>]
                         ELSE @,
             !.log = Append(@, Asked("shell", GovernorPath, <<governor, "LF">>,
                                     IF r.raised # "" THEN r.raised
                                     ELSE IF r.result.code = NoneV THEN "None"
                                     ELSE IF r.result.code = Some(0)
                                       THEN "exit 0"
                                     ELSE "exit non-zero")),
             !.resets = @ + r.resets, !.k = @ + 1],
   raised |-> r.raised,
   code |-> IF r.raised = "" THEN r.result.code ELSE NoneV]

\* HighDevice.shell(cmd) -> LowDevice.shell, for the echo of line 839.
ShellEcho(st, governor, env) ==
  Echoed(st, governor,
         Shell(EchoCmd(governor), adb_cmd, env.plans[st.k], adbReply),
         env.honours)

\* How a call ends: what it returned ("True", "False") or raised.
Ended(st, result, raised) == [st |-> st, result |-> result, raised |-> raised]

\* (val or '').strip() == expected
ReadsAs(value, expected) ==
  Strip(IF value = NoneV THEN <<>> ELSE value.val) = expected

\* A mutant of Confirmed: the value read back is not looked at.
ConfirmedUnread(governor, newval) == Ended(newval.st, "True", "")

\* Lines 845-850, newval being what pull_content returned.
Confirmed(governor, newval) ==
  Ended(newval.st,
        IF ReadsAs(newval.value, <<governor>>) THEN "True" ELSE "False", "")

\* Lines 844-850: read the governor back to confirm.
ReadBack(governor, st, env) ==
  Confirmed(governor, PullContent(st, GovernorPath, env))

\* Lines 840-850, e being how the shell fallback ended.
AfterEcho(governor, e, env) ==
  IF e.raised # "" THEN Ended(e.st, "", e.raised)
  ELSE IF e.code # Some(0) THEN Ended(e.st, "False", "")
  ELSE ReadBack(governor, e.st, env)

\* Lines 837-850, pushed being what push_content returned.
AfterPush(governor, pushed, env) ==
  IF pushed.value THEN ReadBack(governor, pushed.st, env)
  ELSE AfterEcho(governor, ShellEcho(pushed.st, governor, env), env)

\* Lines 835-850: push the governor, fall back to the shell, read back.
WriteGovernor(governor, st, env) ==
  AfterPush(governor,
            PushContent(st, GovernorPath, <<governor, "LF">>, env), env)

\* A mutant of AfterQuery: the governor is written whatever was read.
AfterQueryAlwaysWrites(governor, prev, env) ==
  WriteGovernor(governor, prev.st, env)

\* Lines 827-850, prev being what pull_content returned.
AfterQuery(governor, prev, env) ==
  IF prev.value # NoneV /\ prev.value.val # <<>>
     /\ Strip(prev.value.val) = <<governor>>
    THEN Ended(prev.st, "True", "")
  ELSE WriteGovernor(governor, prev.st, env)

\* Lines 822-850: query the current governor and switch only if it differs.
SwitchGovernor(governor, st, env) ==
  AfterQuery(governor, PullContent(st, GovernorPath, env), env)

\* A mutant of Substitute: an unsupported governor is tried as it is.
SubstituteNone(governor, available) == [how |-> "switch", to |-> governor]

\* A mutant of Substitute: every unsupported governor, not 'powersave' alone,
\* is replaced by a fixed speed.
SubstituteSpeedForAll(governor, available) ==
  IF governor \in available THEN [how |-> "switch", to |-> governor]
  ELSE [how |-> "set_cpu_speed", to |-> ""]

\* Lines 811-820: what is done for `governor` given the governors the cache
\* lists: switch to it or to its substitute, set the speed, or fail.
Substitute(governor, available) ==
  IF governor \in available THEN [how |-> "switch", to |-> governor]
  ELSE CASE governor = "powersave" -> [how |-> "set_cpu_speed", to |-> ""]
         [] governor = "ondemand" -> [how |-> "switch", to |-> "interactive"]
         [] governor = "interactive" -> [how |-> "switch", to |-> "ondemand"]
         [] OTHER -> [how |-> "fail", to |-> ""]

\* How a governor other than an unsupported 'powersave' is set: lines 809
\* and 814-850.
SetGovernor(governor, how, st, env) ==
  IF governor \notin KNOWN_CPU_SCALING_GOVERNOR_VALUES
    THEN Ended(st, "", "AssertionError")
  ELSE IF how.how = "fail" THEN Ended(st, "False", "")
  ELSE SwitchGovernor(how.to, st, env)

\* A mutant of SpeedConfirmed: the outcome of the governor switch is dropped.
SpeedConfirmedAlone(speed, success, val) ==
  Ended(val.st, IF ReadsAs(val.value, DecStr(speed)) THEN "True" ELSE "False",
        "")

\* Line 868, success being what set_cpu_scaling_governor returned and val
\* what pull_content returned.
SpeedConfirmed(speed, success, val) ==
  Ended(val.st,
        IF success = "True" /\ ReadsAs(val.value, DecStr(speed))
          THEN "True" ELSE "False",
        "")

\* Lines 861-868, pushed being what push_content returned.
AfterSpeedPush(speed, success, pushed, env) ==
  IF ~pushed.value THEN Ended(pushed.st, "False", "")
  ELSE SpeedConfirmed(speed, success,
                      PullContent(pushed.st, SetSpeedPath, env))

\* Lines 860-868, g being how set_cpu_scaling_governor('userspace') ended.
AfterUserspace(speed, g, env) ==
  IF g.raised # "" THEN g
  ELSE AfterSpeedPush(speed, g.result,
                      PushContent(g.st, SetSpeedPath,
                                  DecStr(speed) \o <<"LF">>, env),
                      env)

\* HighDevice.set_cpu_speed(speed); speed is NoneV for a value that is not
\* an int.  The governor it asks for is 'userspace', which is never set by
\* setting the speed: the call does not come back here.
SetCpuSpeed(speed, cache, st, env) ==
  IF speed = NoneV THEN Ended(st, "", "AssertionError")
  ELSE IF ~(MinSpeed <= speed.val /\ speed.val <= MaxSpeed)
    THEN Ended(st, "", "AssertionError")
  ELSE AfterUserspace(speed.val,
                      SetGovernor("userspace",
                                  Substitute("userspace",
                                             cache.available_governors),
                                  st, env),
                      env)

\* HighDevice.set_cpu_scaling_governor(governor)
SetCpuScalingGovernor(governor, cache, st, env) ==
  IF governor \in KNOWN_CPU_SCALING_GOVERNOR_VALUES
     /\ Substitute(governor, cache.available_governors).how = "set_cpu_speed"
    THEN SetCpuSpeed(cache.cpuinfo_min_freq, cache, st, env)
  ELSE SetGovernor(governor, Substitute(governor, cache.available_governors),
                   st, env)

\* The deepest nesting of calls followed for one call of the device.
MaxNesting == 5

\* The frames on the stack when fn(arg) is at its deepest, fn being
\* set_cpu_scaling_governor (lines 809-812: an unsupported 'powersave' calls
\* set_cpu_speed(cache.cpuinfo_min_freq)) or set_cpu_speed (lines 858-860:
\* past its two asserts it calls set_cpu_scaling_governor('userspace')).
\* "..." stands for the calls beyond the `fuel` frames followed.
RECURSIVE Nesting(_, _, _, _)
Nesting(fn, arg, cache, fuel) ==
  IF fuel = 0 THEN <<"...">>
  ELSE IF fn = "set_cpu_scaling_governor"
    THEN IF /\ arg \in KNOWN_CPU_SCALING_GOVERNOR_VALUES
            /\ Substitute(arg, cache.available_governors).how
                 = "set_cpu_speed"
           THEN <<fn>> \o Nesting("set_cpu_speed", cache.cpuinfo_min_freq,
                                  cache, fuel - 1)
         ELSE <<fn>>
  ELSE IF arg = NoneV \/ ~(MinSpeed <= arg.val /\ arg.val <= MaxSpeed)
    THEN <<fn>>
  ELSE <<fn>> \o Nesting("set_cpu_scaling_governor", "userspace", cache,
                         fuel - 1)

NoGovCall == [op |-> "init", governor |-> "", speed |-> NoneV,
              honours |-> FALSE, pre |-> <<>>, log |-> <<>>,
              frames |-> <<>>, result |-> "", raised |-> ""]

\* A HighDevice over the LowDevice of the handle, its cache listing the
\* governors `available` and the lowest frequency `min_freq`, and the
\* device's files.
HighConstructed(available, min_freq, governor_file, setspeed_file) ==
  /\ hd_cache = [PrimedCache(1, {}) EXCEPT !.available_governors = available,
                                           !.cpuinfo_min_freq = min_freq]
  /\ sysfs = (GovernorPath :> governor_file @@ SetSpeedPath :> setspeed_file)
  /\ govCall = NoGovCall

\* A HighDevice while another subsystem is looked at.
GovIdle ==
  HighConstructed(KNOWN_CPU_SCALING_GOVERNOR_VALUES, NoneV, <<>>, <<>>)

\* The call, its arguments, what it found and what became of it.
GovCalled(op, governor, speed, env, r) ==
  /\ govCall' = [op |-> op, governor |-> governor, speed |-> speed,
                 honours |-> env.honours, pre |-> sysfs, log |-> r.st.log,
                 frames |-> Nesting(op, IF op = "set_cpu_speed" THEN speed
                                        ELSE governor,
                                    hd_cache, MaxNesting),
                 result |-> r.result, raised |-> r.raised]
  /\ sysfs' = r.st.sysfs
  /\ has_reset' = HasReset(has_reset, r.st.resets)
  /\ UNCHANGED <<hd_cache, adb_cmd, on_error, adbReply, lowCall>>
  /\ UNCHANGED notGov

\* device.set_cpu_scaling_governor(governor), the first call on the device.
HighSetCpuScalingGovernor(governor, env) ==
  /\ govCall.op = "init"
  /\ GovCalled("set_cpu_scaling_governor", governor, NoneV, env,
               SetCpuScalingGovernor(governor, hd_cache, Threaded(sysfs), env))

\* device.set_cpu_speed(speed), the first call on the device.
HighSetCpuSpeed(speed, env) ==
  /\ govCall.op = "init"
  /\ GovCalled("set_cpu_speed", "", speed, env,
               SetCpuSpeed(speed, hd_cache, Threaded(sysfs), env))

\* What the device and the transport do during a call.
Envs == [plans : FaultPlans, honours : BOOLEAN]

\* The governors asked for: the known ones and one that is not.
AskedGovernors == KNOWN_CPU_SCALING_GOVERNOR_VALUES \cup {"schedutil"}

\* The speeds asked for: not an int, and around both limits.
AskedSpeeds == {NoneV, Some(MinSpeed - 1), Some(MinSpeed), Some(MaxSpeed),
                Some(MaxSpeed + 1)}

HighCallsSetCpuScalingGovernor ==
  \E governor \in AskedGovernors, env \in Envs :
    HighSetCpuScalingGovernor(governor, env)

HighCallsSetCpuSpeed ==
  \E speed \in AskedSpeeds, env \in Envs : HighSetCpuSpeed(speed, env)

\* The governors a cache lists: all the known ones (the Nexus 4 and later),
\* those of the Nexus 10, a device with ondemand and powersave only, and one
\* with a single governor.
GovernorSets ==
  {KNOWN_CPU_SCALING_GOVERNOR_VALUES,
   {"interactive", "performance", "userspace"},
   {"ondemand", "powersave"},
   {"conservative"}}

\* What the device's scaling_governor holds before the call.
GovernorFiles ==
  {<<"interactive", "LF">>, <<"performance", "LF">>, <<"userspace">>, <<>>}

\* What the device's scaling_setspeed holds before the call.
SetSpeedFiles == {<<"<unsupported>", "LF">>, DecStr(MinSpeed) \o <<"LF">>}

\* What the device answers to the echo: it exited with 0 or with 1.
EchoReplies == {<<"LF", "0", "LF">>, <<"LF", "1", "LF">>}

\* A HighDevice whose handle is connected, over any device; or one whose
\* handle failed to open, which reaches no device.
GovInit ==
  \E available \in GovernorSets, min_freq \in {NoneV, Some(300000)} :
    \/ \E reply \in EchoReplies, governor_file \in GovernorFiles,
          setspeed_file \in SetSpeedFiles :
         /\ LowConstructed("conn", TRUE, FALSE, reply)
         /\ HighConstructed(available, min_freq, governor_file, setspeed_file)
    \/ /\ LowConstructed("None", TRUE, FALSE, <<>>)
       /\ HighConstructed(available, min_freq, <<>>, <<>>)

GovNext == HighCallsSetCpuScalingGovernor \/ HighCallsSetCpuSpeed

-----------------------------------------------------------------------------
(* api/platforms/android.py: HighDevice.mkstemp and
   HighDevice.run_shell_wrapped, over the LowDevice of the handle *)

\* `for _ in xrange(5)`, line 1085.
MkstempTries == 5

\* ''.join(random.choice(choices) for _ in xrange(5)): two of the names.
RandomParts == {"aaaaa", "bbbbb"}

\* '/data/local/tmp/' + prefix + <random part> + suffix, line 1086.
TempName(random, suffix) == <<"/data/local/tmp/", "swarming", random, suffix>>

TempNames == {TempName(r, x) : r \in RandomParts, x \in {".sh", ".txt"}}

\* len(name): 16 + 8 + 5 + len(suffix)
TempNameLen(name) == IF name[4] = ".sh" THEN 32 ELSE 33

\* ''.join(l + '\n' for l in commands), line 1104.
RECURSIVE JoinLines(_)
JoinLines(commands) ==
  IF commands = <<>> THEN <<>>
  ELSE <<Head(commands), "LF">> \o JoinLines(Tail(commands))

\* 'sh %s &> %s' % (script, outfile), line 1113.
ShCmd(script, outfile) ==
  [text |-> <<"sh ", script, " &> ", outfile>>,
   len |-> 3 + TempNameLen(script) + 4 + TempNameLen(outfile)]

\* 'rm %s' % name, lines 1117 and 1119.
RmCmd(name) == [text |-> <<"rm ", name>>, len |-> 3 + TempNameLen(name)]

\* What run_shell_wrapped returns: False, or tuple(out, exit_code).
NoValue == [kind |-> "", out |-> NoneV, code |-> NoneV]

ReturnsFalse == [NoValue EXCEPT !.kind = "False"]

ReturnsTuple(out, code) == [kind |-> "tuple", out |-> out, code |-> code]

\* The last turn of the loop of mkstemp (not in the code): its number, the
\* name drawn, whether stat reported a mode for it, and how push_content
\* ended ("" when it was not called).
NoTurn == [n |-> 0, name |-> <<>>, mode |-> FALSE, push |-> ""]

\* No call of run_shell_wrapped in progress.
WrapIdleCall ==
  [pc |-> "idle", content |-> <<>>, tries |-> 0, script |-> NoneV,
   outfile |-> NoneV, code |-> NoneV, ran |-> "", result |-> NoValue,
   raised |-> "", removals |-> <<>>, turn |-> NoTurn]

\* A mutant of Unwind: a block is left without running its finally clauses.
UnwindNone(pc) == "done"

\* Where control goes when the statement at `pc` returns or raises: to the
\* innermost enclosing finally clause (lines 1116-1119), or out of the call.
Unwind(pc) ==
  CASE pc \in {"run", "pull"} -> "rm_outfile"
    [] pc \in {"mkstemp_outfile", "rm_outfile"} -> "rm_script"
    [] OTHER -> "done"

\* mkstemp returned `name`, the file it created: lines 1105 and 1109.
MkstempReturned(w, name) ==
  IF w.pc = "mkstemp_script"
    THEN [w EXCEPT !.script = Some(name), !.pc = "mkstemp_outfile",
                   !.tries = 0]
  ELSE [w EXCEPT !.outfile = Some(name), !.pc = "run", !.tries = 0]

\* One turn of the loop of mkstemp made no file: the next turn or, after the
\* last, mkstemp returns None and run_shell_wrapped returns False (lines
\* 1106-1107 and 1110-1111).
MkstempTurned(w) ==
  IF w.tries + 1 < MkstempTries THEN [w EXCEPT !.tries = @ + 1]
  ELSE [w EXCEPT !.tries = 0, !.result = ReturnsFalse, !.pc = Unwind(w.pc)]

\* A mutant of MkstempTurn: the mode stat reported is not looked at.
MkstempTurnOverwrites(w, name, exists, stat, push) ==
  [(IF push.result = Success("push_content")
      THEN MkstempReturned(w, name) ELSE MkstempTurned(w)) EXCEPT
     !.turn = [n |-> w.tries + 1, name |-> name,
               mode |-> stat.result = Success("stat") /\ exists,
               push |-> push.result]]

\* Lines 1086-1092: one turn of the loop of mkstemp for `name`, stat and
\* push being how self.stat and self.push_content ended (the push is made
\* only when the stat found no file).
MkstempTurn(w, name, exists, stat, push) ==
  IF stat.result = Success("stat") /\ exists
    THEN [MkstempTurned(w) EXCEPT
            !.turn = [n |-> w.tries + 1, name |-> name, mode |-> TRUE,
                      push |-> ""]]
  ELSE [(IF push.result = Success("push_content")
           THEN MkstempReturned(w, name) ELSE MkstempTurned(w)) EXCEPT
          !.turn = [n |-> w.tries + 1, name |-> name, mode |-> FALSE,
                    push |-> push.result]]

\* The calls of _try_reset in one turn of the loop of mkstemp.
MkstempResets(exists, stat, push) ==
  IF stat.result = Success("stat") /\ exists THEN stat.resets
  ELSE stat.resets + push.resets

\* The files of the device after one turn of the loop of mkstemp: a push that
\* went through made the file, a push that broke may have (`partial`).
MkstempFiles(files, name, exists, stat, push, partial) ==
  IF stat.result = Success("stat") /\ exists THEN files
  ELSE IF push.result = Success("push_content") \/ partial
    THEN files \cup {name}
  ELSE files

\* A HighDevice over the LowDevice of the handle, and the files of the
\* device's /data/local/tmp.
WrapConstructed(files) ==
  /\ tmpfiles = files
  /\ wrap = WrapIdleCall

\* A HighDevice while another subsystem is looked at.
WrapIdle == WrapConstructed({})

\* device.run_shell_wrapped(commands) is called: line 1104.
WrapCall(commands) ==
  /\ wrap.pc \in {"idle", "done"}
  /\ wrap' = [WrapIdleCall EXCEPT !.pc = "mkstemp_script",
                                  !.content = JoinLines(commands)]
  /\ UNCHANGED tmpfiles
  /\ UNCHANGED lowVars
  /\ UNCHANGED notWrap

\* One turn of the loop of mkstemp, for the script or for the output file.
WrapMkstempTurnWith(name, stat, push, partial) ==
  /\ wrap' = MkstempTurn(wrap, name, name \in tmpfiles, stat, push)
  /\ tmpfiles' = MkstempFiles(tmpfiles, name, name \in tmpfiles, stat, push,
                              partial)
  /\ has_reset' = HasReset(has_reset,
                           MkstempResets(name \in tmpfiles, stat, push))
  /\ UNCHANGED <<adb_cmd, on_error, adbReply, lowCall>>
  /\ UNCHANGED notWrap

WrapMkstempTurn(random, statPlan, pushPlan, partial) ==
  /\ wrap.pc \in {"mkstemp_script", "mkstemp_outfile"}
  /\ WrapMkstempTurnWith(
       TempName(random, IF wrap.pc = "mkstemp_script" THEN ".sh" ELSE ".txt"),
       RetryOp("stat", TRUE, statPlan, adb_cmd, on_error),
       RetryOp("push_content", TRUE, pushPlan, adb_cmd, on_error),
       partial)

\* Line 1113, r being how self.shell('sh <script> &> <outfile>') ended.
WrapRunWith(r, reply) ==
  /\ wrap' = IF r.raised # ""
               THEN [wrap EXCEPT !.ran = "raised", !.raised = r.raised,
                                 !.pc = Unwind(wrap.pc)]
             ELSE [wrap EXCEPT !.ran = "returned", !.code = r.result.code,
                               !.pc = "pull"]
  /\ has_reset' = HasReset(has_reset, r.resets)
  /\ adbReply' = reply
  /\ UNCHANGED <<adb_cmd, on_error, lowCall, tmpfiles>>
  /\ UNCHANGED notWrap

WrapRun(plan, reply) ==
  /\ wrap.pc = "run"
  /\ WrapRunWith(Shell(ShCmd(wrap.script.val, wrap.outfile.val), adb_cmd,
                       plan, reply),
                 reply)

\* Lines 1114-1115, c being how self.pull_content(outfile) ended.
WrapPullWith(c) ==
  /\ wrap' = [wrap EXCEPT
                !.result = ReturnsTuple(
                             IF c.result = Success("pull_content")
                               THEN Some("output") ELSE NoneV,
                             wrap.code),
                !.pc = Unwind(wrap.pc)]
  /\ has_reset' = HasReset(has_reset, c.resets)
  /\ UNCHANGED <<adb_cmd, on_error, adbReply, lowCall, tmpfiles>>
  /\ UNCHANGED notWrap

WrapPull(plan) ==
  /\ wrap.pc = "pull"
  /\ WrapPullWith(RetryOp("pull_content", TRUE, plan, adb_cmd, on_error))

\* Lines 1117 and 1119, r being how self.shell('rm <name>') ended: the file
\* is gone when rm exited with 0; what the shell raised replaces what the
\* call was returning or raising.
WrapRmWith(name, r, reply) ==
  /\ wrap' = [wrap EXCEPT !.removals = Append(@, name),
                          !.raised = IF r.raised # "" THEN r.raised ELSE @,
                          !.pc = Unwind(wrap.pc)]
  /\ tmpfiles' = IF r.raised = "" /\ r.result.code = Some(0)
                   THEN tmpfiles \ {name} ELSE tmpfiles
  /\ has_reset' = HasReset(has_reset, r.resets)
  /\ adbReply' = reply
  /\ UNCHANGED <<adb_cmd, on_error, lowCall>>
  /\ UNCHANGED notWrap

WrapRmOutfile(plan, reply) ==
  /\ wrap.pc = "rm_outfile"
  /\ WrapRmWith(wrap.outfile.val,
                Shell(RmCmd(wrap.outfile.val), adb_cmd, plan, reply), reply)

WrapRmScript(plan, reply) ==
  /\ wrap.pc = "rm_script"
  /\ WrapRmWith(wrap.script.val,
                Shell(RmCmd(wrap.script.val), adb_cmd, plan, reply), reply)

\* The scripts run: one line, two lines.
WrappedCommands == {<<"true">>, <<"echo hi", "false">>}

\* What the device answers to sh and to rm: it exited with 0, with 1, or the
\* answer lacks its last newline.
WrapReplies == {<<"LF", "0", "LF">>, <<"LF", "1", "LF">>, <<"h", "i">>}

WrapCalls == \E commands \in WrappedCommands : WrapCall(commands)

WrapMkstempTurns ==
  \E random \in RandomParts, statPlan \in Plans, pushPlan \in Plans,
     partial \in BOOLEAN :
    WrapMkstempTurn(random, statPlan, pushPlan, partial)

WrapRuns == \E plan \in Plans, reply \in WrapReplies : WrapRun(plan, reply)

WrapPulls == \E plan \in Plans : WrapPull(plan)

WrapRmsOutfile ==
  \E plan \in Plans, reply \in WrapReplies : WrapRmOutfile(plan, reply)

WrapRmsScript ==
  \E plan \in Plans, reply \in WrapReplies : WrapRmScript(plan, reply)

\* A HighDevice whose handle is connected or failed to open, over a device
\* that holds any of the temporary files already.
WrapInit ==
  \E cmd_ \in {"conn", "None"}, files \in SUBSET TempNames :
    /\ LowConstructed(cmd_, TRUE, FALSE, <<>>)
    /\ WrapConstructed(files)

WrapNext ==
  \/ WrapCalls
  \/ WrapMkstempTurns
  \/ WrapRuns
  \/ WrapPulls
  \/ WrapRmsOutfile
  \/ WrapRmsScript

-----------------------------------------------------------------------------
(* api/bot.py: Bot.post_event, Bot.post_error, Bot.restart *)

\* timeout=15*60, line 220.
RestartTimeout == 15 * 60

\* What a call into code the Bot does not own does: the remote client's
\* post_bot_event and the shutdown hook return, or raise an exception derived
\* from Exception.
CallOutcomes == {"returns", "raises"}

\* What os_utilities.restart does: the host reboots and the process is
\* killed; it returns because the restart is not happening; it raises
\* LookupError; it raises something else.
OsRestartOutcomes == {"reboots", "returns", "LookupError", "raises"}

\* message.rstrip()
RECURSIVE RStrip(_)
RStrip(s) ==
  IF s = <<>> THEN s
  ELSE IF s[Len(s)] \in {"LF", "CR", " "}
    THEN RStrip(SubSeq(s, 1, Len(s) - 1))
  ELSE s

\* '\nCalling stack:\n%s' % _make_stack(), line 195.
StackText == <<"LF", "Calling stack:", "LF", "_make_stack()">>

\* '%s%s' % (message.rstrip(), stack), line 197.
ErrorText(message) == RStrip(message) \o StackText

\* One thing the Bot did, as the trace keeps it.
Did(step, type, text, timeout, outcome) ==
  [step |-> step, type |-> type, text |-> text, timeout |-> timeout,
   outcome |-> outcome]

\* Bot.post_event(event_type, message): the call of
\* self._remote.post_bot_event, which returns or raises.
PostEvent(event_type, message, outcome) ==
  Did("post_bot_event", event_type, message, 0, outcome)

\* logging.exception(...)
Logged(what) == Did("logging.exception", "", <<what>>, 0, "returns")

\* A mutant of PostError: the post is not wrapped in try/except.
PostErrorUnguarded(message, outcome) ==
  [steps |-> <<PostEvent("bot_error", ErrorText(message), outcome)>>,
   raised |-> IF outcome = "raises" THEN "Exception" ELSE ""]

\* Bot.post_error(message), lines 194-199: what it does and what it raises.
PostError(message, outcome) ==
  [steps |-> IF outcome = "raises"
               THEN <<PostEvent("bot_error", ErrorText(message), outcome),
                      Logged("post_error failed")>>
             ELSE <<PostEvent("bot_error", ErrorText(message), outcome)>>,
   raised |-> ""]

\* A mutant of HookEnded: what the shutdown hook raises ends the restart.
HookAborts(outcome) ==
  IF outcome = "raises" THEN [pc |-> "raised", raised |-> "Exception"]
  ELSE [pc |-> "os_restart", raised |-> ""]

\* Lines 212-216: where restart goes when the shutdown hook returned or
\* raised.
HookEnded(outcome) == [pc |-> "os_restart", raised |-> ""]

\* Lines 219-229: where restart goes when os_utilities.restart ended.
OsRestartEnded(outcome) ==
  CASE outcome = "reboots" -> [pc |-> "killed", raised |-> ""]
    [] outcome = "returns" -> [pc |-> "stuck", raised |-> ""]
    [] outcome = "LookupError" -> [pc |-> "bad_partition", raised |-> ""]
    [] OTHER -> [pc |-> "raised", raised |-> "Exception"]

\* A mutant of Reported: the except clause of line 221 falls through.
ReportedFallsThrough(pc) == IF pc = "bad_partition" THEN "stuck" ELSE "returned"

\* Where restart goes when post_error returned: into the loop of lines
\* 227-228 after line 226, out of restart after line 229.
Reported(pc) == IF pc = "bad_partition" THEN "hang" ELSE "returned"

\* The message of the error restart posts: lines 226 and 229.
ReportText(pc, message) ==
  IF pc = "bad_partition"
    THEN <<"This host partition is bad; please fix the host">>
  ELSE <<"Bot is stuck restarting for: ">> \o message

\* No call in progress on the Bot.
NoProc == [op |-> "", pc |-> "idle", message |-> <<>>, os |-> "",
           raised |-> "", slept |-> FALSE]

\* The positions at which no call is in progress.
Callable == {"idle", "returned", "raised"}

\* The Bot built with a shutdown hook or with None.
RestartConstructed(hook) ==
  /\ shutdown_hook = hook
  /\ botProc = NoProc
  /\ botTrace = <<>>

\* The Bot while another subsystem is looked at.
RestartIdle == RestartConstructed(FALSE)

\* bot.post_error(message), called from outside the Bot.
BotPostErrorWith(message, r) ==
  /\ botProc' = [NoProc EXCEPT !.op = "post_error", !.message = message,
                               !.raised = r.raised,
                               !.pc = IF r.raised # "" THEN "raised"
                                      ELSE "returned"]
  /\ botTrace' = r.steps
  /\ UNCHANGED shutdown_hook
  /\ UNCHANGED notRestart

BotPostError(message, outcome) ==
  /\ botProc.pc \in Callable
  /\ BotPostErrorWith(message, PostError(message, outcome))

\* bot.restart(message) is called and posts 'bot_rebooting': line 211.
RestartPosts(message, outcome) ==
  /\ botProc.pc \in Callable
  /\ botProc' = [NoProc EXCEPT !.op = "restart", !.message = message,
                               !.raised = IF outcome = "raises"
                                            THEN "Exception" ELSE "",
                               !.pc = IF outcome = "raises" THEN "raised"
                                      ELSE "hook"]
  /\ botTrace' = <<PostEvent("bot_rebooting", message, outcome)>>
  /\ UNCHANGED shutdown_hook
  /\ UNCHANGED notRestart

\* Lines 212-216: the shutdown hook, when there is one.
RestartHook(outcome) ==
  /\ botProc.pc = "hook"
  /\ IF shutdown_hook
       THEN /\ botProc' = [botProc EXCEPT !.pc = HookEnded(outcome).pc,
                                          !.raised = HookEnded(outcome).raised]
            /\ botTrace' =
                 botTrace
                 \o <<Did("shutdown_hook", "", <<>>, 0, outcome)>>
                 \o (IF outcome = "raises"
                       THEN <<Logged("shutdown hook failed")>> ELSE <<>>)
     ELSE /\ botProc' = [botProc EXCEPT !.pc = "os_restart"]
          /\ UNCHANGED botTrace
  /\ UNCHANGED shutdown_hook
  /\ UNCHANGED notRestart

\* Lines 219-221: os_utilities.restart(message, timeout=15*60).
RestartOs(outcome) ==
  /\ botProc.pc = "os_restart"
  /\ botProc' = [botProc EXCEPT !.os = outcome,
                                !.pc = OsRestartEnded(outcome).pc,
                                !.raised = OsRestartEnded(outcome).raised]
  /\ botTrace' = Append(botTrace,
                        Did("os_utilities.restart", "", botProc.message,
                            RestartTimeout, outcome))
  /\ UNCHANGED shutdown_hook
  /\ UNCHANGED notRestart

\* Lines 226 and 229: restart posts an error.
RestartReportsWith(r) ==
  /\ botProc' = [botProc EXCEPT !.raised = r.raised,
                                !.pc = IF r.raised # "" THEN "raised"
                                       ELSE Reported(botProc.pc)]
  /\ botTrace' = botTrace \o r.steps
  /\ UNCHANGED shutdown_hook
  /\ UNCHANGED notRestart

RestartReports(outcome) ==
  /\ botProc.pc \in {"stuck", "bad_partition"}
  /\ RestartReportsWith(PostError(ReportText(botProc.pc, botProc.message),
                                  outcome))

\* Lines 227-228: one turn of `while True: time.sleep(1)`.
RestartSleeps ==
  /\ botProc.pc = "hang"
  /\ botProc' = [botProc EXCEPT !.slept = TRUE]
  /\ UNCHANGED <<shutdown_hook, botTrace>>
  /\ UNCHANGED notRestart

\* The messages given to post_error and restart: with and without trailing
\* whitespace.
Messages == {<<"boom">>, <<"boom", "LF">>, <<"two", "LF", "lines", " ", "LF">>}

RestartInit == \E hook \in BOOLEAN : RestartConstructed(hook)

RestartNext ==
  \/ \E message \in Messages, outcome \in CallOutcomes :
       BotPostError(message, outcome)
  \/ \E message \in Messages, outcome \in CallOutcomes :
       RestartPosts(message, outcome)
  \/ \E outcome \in CallOutcomes : RestartHook(outcome)
  \/ \E outcome \in OsRestartOutcomes : RestartOs(outcome)
  \/ \E outcome \in CallOutcomes : RestartReports(outcome)
  \/ RestartSleeps

-----------------------------------------------------------------------------
(* api/platforms/android.py: the composite reads of HighDevice *)

\* How a call ends: with a value, or with the exception that leaves it.
ReadReturns(v) == [raised |-> "", value |-> v]

ReadRaises(e) == [raised |-> e, value |-> NoneV]

\* The whitespace str.strip() and str.split() look for.
Blank == {" ", "LF", "CR"}

\* s.startswith(prefix)
StartsWith(s, prefix) ==
  Len(s) >= Len(prefix) /\ SubSeq(s, 1, Len(prefix)) = prefix

\* s.lstrip()
RECURSIVE LStripBlank(_)
LStripBlank(s) ==
  IF Len(s) > 0 /\ s[1] \in Blank THEN LStripBlank(Tail(s)) ELSE s

\* s.strip()
RECURSIVE StripBlank(_)
StripBlank(s) ==
  IF Len(s) > 0 /\ s[Len(s)] \in Blank
    THEN StripBlank(SubSeq(s, 1, Len(s) - 1))
  ELSE LStripBlank(s)

\* s.splitlines(): a final '\n' opens no empty line.
RECURSIVE SplitLines(_)
SplitLines(s) ==
  IF Len(s) = 0 THEN <<>>
  ELSE IF \A i \in 1..Len(s) : s[i] # "LF" THEN <<s>>
  ELSE LET i == CHOOSE k \in 1..Len(s) :
                  s[k] = "LF" /\ \A j \in 1..(k - 1) : s[j] # "LF"
       IN <<SubSeq(s, 1, i - 1)>> \o SplitLines(SubSeq(s, i + 1, Len(s)))

\* The places of s where sep starts.
Starts(s, sep) == {k \in 1..Len(s) : StartsWith(SubSeq(s, k, Len(s)), sep)}

\* s.split(sep, max)
RECURSIVE SplitOn(_, _, _)
SplitOn(s, sep, max) ==
  IF max = 0 \/ Starts(s, sep) = {} THEN <<s>>
  ELSE LET i == CHOOSE k \in Starts(s, sep) : \A j \in Starts(s, sep) : k <= j
       IN <<SubSeq(s, 1, i - 1)>>
          \o SplitOn(SubSeq(s, i + Len(sep), Len(s)), sep, max - 1)

\* The length of the run of characters of `set` that s starts with.
RECURSIVE Run(_, _)
Run(s, set) ==
  IF Len(s) > 0 /\ s[1] \in set THEN 1 + Run(Tail(s), set) ELSE 0

\* s.split(): the fields between runs of whitespace.
RECURSIVE Fields(_)
Fields(s) ==
  IF Len(s) = 0 THEN <<>>
  ELSE IF s[1] \in Blank THEN Fields(Tail(s))
  ELSE LET n == CHOOSE k \in 1..Len(s) :
                  /\ \A j \in 1..k : s[j] \notin Blank
                  /\ k = Len(s) \/ s[k + 1] \in Blank
       IN <<SubSeq(s, 1, n)>> \o Fields(SubSeq(s, n + 1, Len(s)))

\* int(x): TypeError for None, ValueError for a text that is no number.
PyInt(x) ==
  IF x = NoneV THEN ReadRaises("TypeError")
  ELSE IF Len(StripBlank(x.val)) > 0
          /\ \A i \in 1..Len(StripBlank(x.val)) : StripBlank(x.val)[i] \in Digits
    THEN ReadReturns(Decimal(StripBlank(x.val)))
  ELSE ReadRaises("ValueError")

\* float(s) for the texts made of digits and '.': the integral part and
\* the digits after the point; ValueError for a text that is no number.
Float(s) ==
  LET t == StripBlank(s)
      a == Run(t, Digits)
  IN IF a = Len(t) /\ a > 0 THEN ReadReturns([int |-> Decimal(t), frac |-> <<>>])
     ELSE IF /\ a < Len(t)
             /\ t[a + 1] = "."
             /\ a + 1 + Run(SubSeq(t, a + 2, Len(t)), Digits) = Len(t)
             /\ Len(t) > 1
       THEN ReadReturns([int |-> Decimal(SubSeq(t, 1, a)),
                         frac |-> SubSeq(t, a + 2, Len(t))])
     ELSE ReadRaises("ValueError")

\* `not out` for what shell() and pull_content() hand back: None or ''.
Falsy(out) == out = NoneV \/ out.val = <<>>

\* HighDevice.dumpsys(arg), lines 1127-1137, when shell('dumpsys ' + arg)
\* returned sh: the text, or None.
CantFind == "Can't find service: "

Dumpsys(sh) ==
  IF sh.code # Some(0) THEN ReadReturns(NoneV)
  ELSE IF sh.out = NoneV THEN ReadRaises("AttributeError")
  ELSE IF StartsWith(sh.out.val, <<CantFind>>) THEN ReadReturns(NoneV)
  ELSE ReadReturns(sh.out)

\* HighDevice.get_temperatures(), lines 870-885, when the two calls of
\* pull_content return pulls[1] and pulls[2]: TypeError and ValueError of
\* int() are caught.
GetTemperatures(pulls) ==
  IF PyInt(pulls[1]).raised \in {"TypeError", "ValueError"}
    THEN ReadReturns(NoneV)
  ELSE IF PyInt(pulls[2]).raised \in {"TypeError", "ValueError"}
    THEN ReadReturns(NoneV)
  ELSE ReadReturns(Some(<<PyInt(pulls[1]).value, PyInt(pulls[2]).value>>))

\* line.endswith(u':')
EndsWithColon(line) == Len(line) > 0 /\ line[Len(line)] = ":"

\* The loop of get_battery, lines 893-900: props after the lines given.
RECURSIVE BatteryProps(_, _)
BatteryProps(lines, props) ==
  IF Len(lines) = 0 THEN props
  ELSE IF EndsWithColon(Head(lines)) THEN BatteryProps(Tail(lines), props)
  ELSE IF Len(SplitOn(Head(lines), <<":">>, 2)) = 2
    THEN BatteryProps(Tail(lines),
                      DictSet(props,
                              LStripBlank(SplitOn(Head(lines), <<":">>, 2)[1]),
                              StripBlank(SplitOn(Head(lines), <<":">>, 2)[2])))
  ELSE BatteryProps(Tail(lines), props)

PowerSources == <<"AC", "USB", "Wireless">>

PowerKey == [AC |-> "AC powered", USB |-> "USB powered",
             Wireless |-> "Wireless powered"]

BatteryKeys == {"health", "level", "status", "temperature", "voltage"}

\* Lines 901-910 of get_battery: the dict built from props; int() of a
\* value that is no number leaves the call.
BatteryOut(props) ==
  IF \E k \in BatteryKeys :
       <<k>> \in DOMAIN props /\ PyInt(Some(props[<<k>>])).raised # ""
    THEN ReadRaises("ValueError")
  ELSE ReadReturns(
         [k \in BatteryKeys |->
            IF <<k>> \in DOMAIN props
              THEN Some(PyInt(Some(props[<<k>>])).value) ELSE NoneV]
         @@ [power |-> SelectSeq(PowerSources,
                         LAMBDA p : /\ <<PowerKey[p]>> \in DOMAIN props
                                    /\ props[<<PowerKey[p]>>] = <<"true">>)])

\* HighDevice.get_battery(), lines 887-910, when shell() returned sh.
GetBattery(sh) ==
  IF Dumpsys(sh).raised # "" THEN Dumpsys(sh)
  ELSE IF Falsy(Dumpsys(sh).value) THEN ReadReturns(EmptyDict)
  ELSE BatteryOut(BatteryProps(SplitLines(Dumpsys(sh).value.val), EmptyDict))

\* HighDevice.get_uptime(), lines 927-932, when pull_content returned out.
GetUptime(out) ==
  IF Falsy(out) THEN ReadReturns(NoneV)
  ELSE IF Len(Fields(out.val)) < 2 THEN ReadRaises("IndexError")
  ELSE Float(Fields(out.val)[2])

\* re.match(u'^(\d+)K / (\d+)K.*', value): the two numbers, or None.
DiskMatch(value) ==
  LET a == Run(value, Digits)
      b == Run(SubSeq(value, a + 5, Len(value)), Digits)
  IN IF /\ a > 0
        /\ StartsWith(SubSeq(value, a + 1, Len(value)), <<"K", " ", "/", " ">>)
        /\ b > 0
        /\ Len(value) >= a + 5 + b
        /\ value[a + 5 + b] = "K"
       THEN Some(<<Decimal(SubSeq(value, 1, a)),
                   Decimal(SubSeq(value, a + 5, a + 4 + b))>>)
       ELSE NoneV

\* round(float(kb) / 1024., 1), in tenths of a megabyte.
TenthsOfMb(kb) == (kb * 10 + 512) \div 1024

\* The loop of get_disk, lines 940-951: props after the lines given.
RECURSIVE DiskProps(_, _)
DiskProps(lines, props) ==
  IF Len(lines) = 0 THEN props
  ELSE IF EndsWithColon(Head(lines)) THEN DiskProps(Tail(lines), props)
  ELSE IF /\ Len(SplitOn(Head(lines), <<":", " ">>, 2)) = 2
          /\ DiskMatch(SplitOn(Head(lines), <<":", " ">>, 2)[2]) # NoneV
    THEN DiskProps(
           Tail(lines),
           DictSet(props, LStripBlank(SplitOn(Head(lines), <<":", " ">>, 2)[1]),
                   [free_mb |-> TenthsOfMb(
                      DiskMatch(SplitOn(Head(lines), <<":", " ">>, 2)[2]).val[1]),
                    size_mb |-> TenthsOfMb(
                      DiskMatch(SplitOn(Head(lines), <<":", " ">>, 2)[2]).val[2])]))
  ELSE DiskProps(Tail(lines), props)

DiskKeys == {"Cache-Free", "Data-Free", "System-Free"}

\* Lines 952-956 of get_disk: props[u'Cache-Free'] and the two others.
DiskOut(props) ==
  IF \E k \in DiskKeys : <<k>> \notin DOMAIN props THEN ReadRaises("KeyError")
  ELSE ReadReturns([cache |-> props[<<"Cache-Free">>],
                    data |-> props[<<"Data-Free">>],
                    system |-> props[<<"System-Free">>]])

\* HighDevice.get_disk(), lines 934-956, when shell() returned sh.
GetDisk(sh) ==
  IF Dumpsys(sh).raised # "" THEN Dumpsys(sh)
  ELSE IF Falsy(Dumpsys(sh).value) THEN ReadReturns(EmptyDict)
  ELSE DiskOut(DiskProps(SplitLines(Dumpsys(sh).value.val), EmptyDict))

\* HighDevice.get_ip(), lines 977-984, when shell() returned sh.
GetIp(sh) ==
  IF Falsy(sh.out) THEN ReadReturns(NoneV)
  ELSE ReadReturns(Some(StripBlank(sh.out.val)))

\* HighDevice.list_packages(), lines 1002-1007, when shell() returned sh.
ListPackages(sh) ==
  IF Falsy(sh.out) THEN ReadReturns(NoneV)
  ELSE LET lines == SplitLines(StripBlank(sh.out.val))
       IN IF \E i \in DOMAIN lines : Len(SplitOn(lines[i], <<":">>, 1)) < 2
            THEN ReadRaises("IndexError")
          ELSE ReadReturns(Some([i \in DOMAIN lines |->
                                   SplitOn(lines[i], <<":">>, 1)[2]]))

\* re.search('  Device ID = (.+)$', out): the group, or None.  '$' is the
\* end of the text or the place before its final '\n'; '.' is no '\n'.
DeviceIdIs == "  Device ID = "

ImeiSearch(out) ==
  LET body == IF Len(out) > 0 /\ out[Len(out)] = "LF"
                THEN SubSeq(out, 1, Len(out) - 1) ELSE out
      at   == {k \in 1..(Len(body) - 1) :
                 /\ body[k] = DeviceIdIs
                 /\ \A j \in (k + 1)..Len(body) : body[j] # "LF"}
  IN IF at = {} THEN NoneV
     ELSE Some(SubSeq(body, 1 + CHOOSE k \in at : \A j \in at : k <= j,
                      Len(body)))

\* A line of a parcel as _parcel_to_list matches it, lines 86-88: the
\* address, four words of two halves of four characters each, the text.
ParcelAddr == "  0x00000000: "

ParcelText == " '................'"

\* The halves [0-9a-f ]{4} of the samples: hexadecimal, blank, and one with
\* a blank inside.
HexHalves == {"0000", "000f", "0033", "0035"}

BlankHalf == "    "

Halves == HexHalves \cup {BlankHalf, "0 3 "}

ParcelMatch(line) ==
  /\ Len(line) >= 10
  /\ line[1] = ParcelAddr
  /\ \A i \in 2..9 : line[i] \in Halves
  /\ line[10] = ParcelText

\* _parcel_to_list(lines), lines 82-99: of each word the second half, then
\* the first, blanks left out; the first line that does not match ends it.
RECURSIVE ParcelToList(_)
ParcelToList(lines) ==
  IF Len(lines) = 0 \/ ~ParcelMatch(Head(lines)) THEN <<>>
  ELSE SelectSeq(<<Head(lines)[3], Head(lines)[2], Head(lines)[5],
                   Head(lines)[4], Head(lines)[7], Head(lines)[6],
                   Head(lines)[9], Head(lines)[8]>>,
                 LAMBDA c : c # BlankHalf)
       \o ParcelToList(Tail(lines))

\* unichr(int(i, 16))
Unichr == [i \in HexHalves |->
             CASE i = "0000" -> "NUL" [] i = "000f" -> "SI"
               [] i = "0033" -> "3" [] i = "0035" -> "5"]

ParcelHeader == "Result: Parcel("

\* Lines 969-975 of get_imei on the output of 'service call iphonesubinfo 1'.
ImeiOfParcel(out) ==
  LET lines == SplitLines(out)
      chars == SubSeq(ParcelToList(Tail(lines)), 5,
                      Len(ParcelToList(Tail(lines))) - 1)
  IN IF Len(lines) >= 4 /\ lines[1] = <<ParcelHeader>>
       THEN IF \E i \in DOMAIN chars : chars[i] \notin HexHalves
              THEN ReadRaises("ValueError")
              ELSE ReadReturns(Some([i \in DOMAIN chars |-> Unichr[chars[i]]]))
       ELSE ReadReturns(NoneV)

\* HighDevice.get_imei(), lines 958-975, when shell() returned dsh to
\* dumpsys and ssh to the service call.
GetImei(dsh, ssh) ==
  IF Dumpsys(dsh).raised # "" THEN Dumpsys(dsh)
  ELSE IF ~Falsy(Dumpsys(dsh).value)
          /\ ImeiSearch(Dumpsys(dsh).value.val) # NoneV
    THEN ReadReturns(ImeiSearch(Dumpsys(dsh).value.val))
  ELSE IF ~Falsy(ssh.out) THEN ImeiOfParcel(ssh.out.val)
  ELSE ReadReturns(NoneV)

\* ---- What the device answers to the composite reads

\* The longest diagnostic text, in lines.
MaxLines == 3

\* The lines given, each closed by '\n'.
RECURSIVE TextOf(_)
TextOf(ls) ==
  IF ls = <<>> THEN <<>> ELSE Head(ls) \o <<"LF">> \o TextOf(Tail(ls))

\* All texts of at most n lines taken from `lines`.
TextsOf(lines, n) == {TextOf(ls) : ls \in UNION {[1..k -> lines] : k \in 0..n}}

\* What shell() returns for a command whose output is one of `texts`:
\* (None, None) after USB errors, else the output and the exit code.
ShellAnswers(texts) ==
  {ShellResult(NoneV, NoneV)}
    \cup {ShellResult(Some(t), Some(c)) : t \in texts, c \in {0, 1}}

\* Lines of 'dumpsys battery'; 'voltage:1' is the form of Android 4.1.2.
BatteryLines ==
  {<<"Current Battery Service state", ":">>,
   <<" ", " ", "AC powered", ":", " ", "true">>,
   <<" ", " ", "level", ":", " ", "1", "0">>,
   <<" ", " ", "voltage", ":", "1">>,
   <<" ", " ", "temperature", ":", " ", "1", ".", "1">>}

BatteryAnswers ==
  ShellAnswers(TextsOf(BatteryLines, MaxLines)
                 \cup {<<CantFind, "battery", "LF">>})

\* Lines of 'dumpsys diskstats'.
DiskLines ==
  {<<"Latency", ":", " ", "1", "ms">>,
   <<"Cache-Free", ":", " ", "1", "0", "K", " ", "/", " ", "1", "1", "K",
     " ", "total">>,
   <<"Data-Free", ":", " ", "1", "K", " ", "/", " ", "1", "0", "K", " ",
     "total">>,
   <<"System-Free", ":", " ", "0", "K", " ", "/", " ", "1", "1", "1", "1",
     "K", " ", "total">>}

DiskAnswers ==
  ShellAnswers(TextsOf(DiskLines, MaxLines)
                 \cup {<<CantFind, "diskstats", "LF">>})

\* Lines of 'pm list packages'.
PackageLines ==
  {<<"package", ":", "com.a">>, <<"package", ":", "com.b">>, <<>>,
   <<"WARNING">>}

PackageAnswers == ShellAnswers(TextsOf(PackageLines, MaxLines))

\* 'getprop dhcp.wlan0.ipaddress'
IpAnswers == ShellAnswers({<<>>, <<"LF">>, <<"10.0.0.1", "LF">>})

\* What pull_content returns for a thermal zone: None, or the file.
TemperaturePulls ==
  {NoneV, Some(<<>>), Some(<<"1", "0", "LF">>), Some(<<"n/a", "LF">>)}

\* What pull_content returns for /proc/uptime.
UptimePulls ==
  {NoneV, Some(<<>>), Some(<<"1", "0", ".", "1", " ", "1", ".", "0", "LF">>),
   Some(<<"1", "0", "LF">>), Some(<<"1", " ", "n/a", "LF">>)}

\* 'dumpsys iphonesubinfo'
ImeiDumpsysAnswers ==
  {ShellResult(NoneV, NoneV),
   ShellResult(Some(<<CantFind, "iphonesubinfo", "LF">>), Some(0)),
   ShellResult(Some(<<"Phone Subscriber Info", ":", "LF">>), Some(0)),
   ShellResult(Some(<<"Phone Subscriber Info", ":", "LF",
                      DeviceIdIs, "3", "5", "LF">>), Some(0))}

\* Lines of 'service call iphonesubinfo 1' after the header.
ParcelLines ==
  {<<ParcelAddr, "0000", "0000", "0000", "000f", "0035", "0033", "0035",
     "0033", ParcelText>>,
   <<ParcelAddr, "0035", "0033", BlankHalf, BlankHalf, BlankHalf, BlankHalf,
     BlankHalf, BlankHalf, ParcelText, ")">>,
   <<ParcelAddr, "0000", "0000", "0000", "000f", "0035", "0 3 ", "0035",
     "0033", ParcelText>>,
   <<"Result", ":", " ", "error">>}

ParcelAnswers ==
  ShellAnswers({h \o t : h \in {<<>>, <<ParcelHeader, "LF">>},
                         t \in TextsOf(ParcelLines, MaxLines)})

\* ---- Calls of the composite reads

NoReadCall == [op |-> "", args |-> <<>>, result |-> ReadReturns(NoneV)]

ReadIdle == readCall = NoReadCall

\* Each call leaves the operation, what the primitives returned to it and
\* how it ended.

\* HighDevice.get_temperatures()
HighGetTemperatures(p0, p1) ==
  /\ readCall = NoReadCall
  /\ readCall' = [op |-> "get_temperatures", args |-> <<p0, p1>>,
                  result |-> GetTemperatures(<<p0, p1>>)]
  /\ UNCHANGED notRead

\* HighDevice.get_battery()
HighGetBattery(sh) ==
  /\ readCall = NoReadCall
  /\ readCall' = [op |-> "get_battery", args |-> <<sh>>,
                  result |-> GetBattery(sh)]
  /\ UNCHANGED notRead

\* HighDevice.get_uptime()
HighGetUptime(out) ==
  /\ readCall = NoReadCall
  /\ readCall' = [op |-> "get_uptime", args |-> <<out>>,
                  result |-> GetUptime(out)]
  /\ UNCHANGED notRead

\* HighDevice.get_disk()
HighGetDisk(sh) ==
  /\ readCall = NoReadCall
  /\ readCall' = [op |-> "get_disk", args |-> <<sh>>,
                  result |-> GetDisk(sh)]
  /\ UNCHANGED notRead

\* HighDevice.get_imei()
HighGetImei(dsh, ssh) ==
  /\ readCall = NoReadCall
  /\ readCall' = [op |-> "get_imei", args |-> <<dsh, ssh>>,
                  result |-> GetImei(dsh, ssh)]
  /\ UNCHANGED notRead

\* HighDevice.get_ip()
HighGetIp(sh) ==
  /\ readCall = NoReadCall
  /\ readCall' = [op |-> "get_ip", args |-> <<sh>>,
                  result |-> GetIp(sh)]
  /\ UNCHANGED notRead

\* HighDevice.list_packages()
HighListPackages(sh) ==
  /\ readCall = NoReadCall
  /\ readCall' = [op |-> "list_packages", args |-> <<sh>>,
                  result |-> ListPackages(sh)]
  /\ UNCHANGED notRead

\* The caller takes the result; the device is ready for the next read.
ReadEnds ==
  /\ readCall # NoReadCall
  /\ readCall' = NoReadCall
  /\ UNCHANGED notRead

ReadNext ==
  \/ \E p0, p1 \in TemperaturePulls : HighGetTemperatures(p0, p1)
  \/ \E sh \in BatteryAnswers : HighGetBattery(sh)
  \/ \E out \in UptimePulls : HighGetUptime(out)
  \/ \E sh \in DiskAnswers : HighGetDisk(sh)
  \/ \E dsh \in ImeiDumpsysAnswers, ssh \in ParcelAnswers :
       HighGetImei(dsh, ssh)
  \/ \E sh \in IpAnswers : HighGetIp(sh)
  \/ \E sh \in PackageAnswers : HighListPackages(sh)
  \/ ReadEnds

-----------------------------------------------------------------------------
(* api/platforms/android.py: _PerDeviceCache called from several workers *)

\* The number of threads calling the registry at the same time.
MaxWorkers == 2

Workers == 1..MaxWorkers

\* The methods whose body runs inside `with self._lock`, lines 56-75.
\* A mutant of UnderLock: trim walks the registry without taking the lock.
UnderLockButTrim == {"get", "set"}

UnderLock == {"get", "set", "trim"}

\* What the registry holds before the calls: an older entry for some ports.
StartRegistries == UNION {[D -> {"old"}] : D \in SUBSET Ports}

\* The device lists handed to trim: a port path is missing, or its device
\* is valid or not.
TrimLists ==
  {<<>>,
   <<[port_path |-> "1/2", valid |-> TRUE]>>,
   <<[port_path |-> "1/2", valid |-> FALSE],
     [port_path |-> "1/3", valid |-> TRUE]>>,
   <<[port_path |-> "1/2", valid |-> TRUE],
     [port_path |-> "1/3", valid |-> TRUE]>>}

NoCacheCall ==
  [pc |-> "idle", op |-> "", port_path |-> "", cache |-> "", devices |-> <<>>,
   keys |-> {}, result |-> NoneV, raised |-> "", overlapped |-> FALSE]

CacheIdle ==
  /\ cache_lock = FALSE
  /\ workers = [w \in Workers |-> NoCacheCall]
  /\ per_device0 = EmptyDict

\* The registry as earlier discoveries left it, no call in progress.
CacheConstructed ==
  /\ cache_lock = FALSE
  /\ workers = [w \in Workers |-> NoCacheCall]
  /\ per_device0 \in StartRegistries
  /\ per_device = per_device0
  /\ adb_keys = FALSE
  /\ usb = [q \in Ports |-> [plugged |-> TRUE, image |-> 1]]
  /\ disc = Idle
  /\ devices = NoneV
  /\ discLast = "init"

\* Another worker is inside a call when one starts.
Overlaps(w) == \E v \in Workers \ {w} : workers[v].pc \notin {"idle", "done"}

\* What the calls leave alone.
CacheFrame ==
  /\ UNCHANGED <<adb_keys, usb, disc, devices, discLast, per_device0>>
  /\ UNCHANGED notCache

\* The call a worker has just made.
Called(w, op, port_path, cache, devs) ==
  [NoCacheCall EXCEPT !.pc = "want", !.op = op, !.port_path = port_path,
                      !.cache = cache, !.devices = devs,
                      !.overlapped = Overlaps(w)]

\* A worker calls get(device), line 56.
CallGet(w, port_path) ==
  /\ workers[w].pc = "idle"
  /\ workers' = [workers EXCEPT ![w] = Called(w, "get", port_path, "", <<>>)]
  /\ UNCHANGED <<cache_lock, per_device>>
  /\ CacheFrame

\* A worker calls set(device, cache), line 60.
CallSet(w, port_path, cache) ==
  /\ workers[w].pc = "idle"
  /\ workers' = [workers EXCEPT ![w] = Called(w, "set", port_path, cache, <<>>)]
  /\ UNCHANGED <<cache_lock, per_device>>
  /\ CacheFrame

\* A worker calls trim(devices), line 64; device_keys (line 70) is built
\* from the list before the lock is asked for.
CallTrim(w, devs) ==
  /\ workers[w].pc = "idle"
  /\ workers' = [workers EXCEPT ![w] = Called(w, "trim", "", "", devs)]
  /\ UNCHANGED <<cache_lock, per_device>>
  /\ CacheFrame

\* `with self._lock:` is entered: the worker waits until the lock is free.
LockAcquire(w) ==
  /\ workers[w].pc = "want"
  /\ IF workers[w].op \in UnderLock
       THEN cache_lock = FALSE /\ cache_lock' = TRUE
       ELSE UNCHANGED cache_lock
  /\ workers' = [workers EXCEPT ![w].pc = "held"]
  /\ UNCHANGED per_device
  /\ CacheFrame

\* get, line 58: self._per_device.get(device.port_path)
GetBody(w) ==
  /\ workers[w].pc = "held"
  /\ workers[w].op = "get"
  /\ workers' = [workers EXCEPT
                   ![w].pc = "release",
                   ![w].result = CacheGet(per_device, workers[w].port_path)]
  /\ UNCHANGED <<cache_lock, per_device>>
  /\ CacheFrame

\* set, line 62: self._per_device[device.port_path] = cache
SetBody(w) ==
  /\ workers[w].pc = "held"
  /\ workers[w].op = "set"
  /\ per_device' = CacheSet(per_device, workers[w].port_path, workers[w].cache)
  /\ workers' = [workers EXCEPT ![w].pc = "release"]
  /\ UNCHANGED cache_lock
  /\ CacheFrame

\* trim, line 72: self._per_device.keys(), the list the loop walks.
TrimKeys(w) ==
  /\ workers[w].pc = "held"
  /\ workers[w].op = "trim"
  /\ workers' = [workers EXCEPT
                   ![w].keys = DOMAIN per_device,
                   ![w].pc = IF DOMAIN per_device = {} THEN "release"
                             ELSE "loop"]
  /\ UNCHANGED <<cache_lock, per_device>>
  /\ CacheFrame

\* `not dev or not dev.is_valid`, lines 73-74.
Stale(device_keys, port_path) ==
  port_path \notin DOMAIN device_keys \/ ~device_keys[port_path].valid

\* trim, lines 72-75: one turn of the loop, for a key of the list; del of a
\* key that is gone raises KeyError, which leaves the method.
TrimStep(w, port_path) ==
  /\ workers[w].pc = "loop"
  /\ port_path \in workers[w].keys
  /\ IF ~Stale(DeviceKeys(workers[w].devices), port_path)
       THEN /\ UNCHANGED per_device
            /\ workers' = [workers EXCEPT
                 ![w].keys = @ \ {port_path},
                 ![w].pc = IF workers[w].keys = {port_path}
                             THEN "release" ELSE "loop"]
     ELSE IF port_path \in DOMAIN per_device
       THEN /\ per_device' = DictDel(per_device, port_path)
            /\ workers' = [workers EXCEPT
                 ![w].keys = @ \ {port_path},
                 ![w].pc = IF workers[w].keys = {port_path}
                             THEN "release" ELSE "loop"]
     ELSE /\ UNCHANGED per_device
          /\ workers' = [workers EXCEPT ![w].pc = "release",
                                        ![w].raised = "KeyError"]
  /\ UNCHANGED cache_lock
  /\ CacheFrame

\* The `with` block is left, by return or by exception: the lock is free.
LockRelease(w) ==
  /\ workers[w].pc = "release"
  /\ IF workers[w].op \in UnderLock
       THEN cache_lock' = FALSE ELSE UNCHANGED cache_lock
  /\ workers' = [workers EXCEPT ![w].pc = "done"]
  /\ UNCHANGED per_device
  /\ CacheFrame

CacheNext ==
  \/ \E w \in Workers, port_path \in Ports : CallGet(w, port_path)
  \/ \E w \in Workers, port_path \in Ports : CallSet(w, port_path, "new")
  \/ \E w \in Workers, devs \in TrimLists : CallTrim(w, devs)
  \/ \E w \in Workers : LockAcquire(w)
  \/ \E w \in Workers : GetBody(w)
  \/ \E w \in Workers : SetBody(w)
  \/ \E w \in Workers : TrimKeys(w)
  \/ \E w \in Workers, port_path \in Ports : TrimStep(w, port_path)
  \/ \E w \in Workers : LockRelease(w)

\* ---- The same calls one after the other

\* A call made alone on the registry `per`: the registry it leaves and what
\* it returns.
Alone(call, per) ==
  IF call.op = "get"
    THEN [per |-> per, result |-> CacheGet(per, call.port_path)]
  ELSE IF call.op = "set"
    THEN [per |-> CacheSet(per, call.port_path, call.cache), result |-> NoneV]
  ELSE [per |-> Trim(per, call.devices), result |-> NoneV]

\* The orders in which the workers of D can take their turn.
Orders(D) ==
  {s \in [1..Cardinality(D) -> D] : \A i, j \in DOMAIN s : s[i] = s[j] => i = j}

\* The calls made in this order from the i-th on, starting from `per`,
\* return what the workers got and leave the registry as it is now.
RECURSIVE Explains(_, _, _)
Explains(order, i, per) ==
  IF i > Len(order) THEN per = per_device
  ELSE /\ workers[order[i]].raised = ""
       /\ Alone(workers[order[i]], per).result = workers[order[i]].result
       /\ Explains(order, i + 1, Alone(workers[order[i]], per).per)

-----------------------------------------------------------------------------
(* api/platforms/android.py: HighDevice.push_keys, over the LowDevice of
   the handle *)

\* Bound: the number of push_keys calls made on the device.
MaxPushes == 2

AdbKeysPath == "/data/misc/adb/adb_keys"

\* The public keys there are, in the order sorted() puts them.  A key is one
\* line: it holds no '\n' (lines 1056 and 1063).
KeyOrder == <<"ka", "kb", "kc">>

\* set(old_content.strip().splitlines()), line 1059.
KeysOf(content) ==
  {SplitLines(StripBlank(content))[i][1] :
     i \in DOMAIN SplitLines(StripBlank(content))}

\* ''.join(k + '\n' for k in sorted(keys)), line 1069, from the i-th key on.
RECURSIVE JoinKeys(_, _)
JoinKeys(keys, i) ==
  IF i > Len(KeyOrder) THEN <<>>
  ELSE (IF KeyOrder[i] \in keys THEN <<KeyOrder[i], "LF">> ELSE <<>>)
         \o JoinKeys(keys, i + 1)

\* The three commands push_keys runs, lines 1064, 1066 and 1071.
MkdirCmd == [text |-> "mkdir -p /data/misc/adb", len |-> 23]

RestoreconDirCmd == [text |-> "restorecon /data/misc/adb", len |-> 25]

RestoreconFileCmd ==
  [text |-> "restorecon /data/misc/adb/adb_keys", len |-> 34]

\* What shell(cmd) leaves and returns when the handle's shell ended as r: the
\* exit code, or what shell raised.  None of the three commands touches the
\* content of adb_keys.
Shelled(st, cmd, r) ==
  [st |-> [st EXCEPT
             !.log = Append(@, Asked("shell", cmd.text, <<>>,
                                     IF r.raised # "" THEN r.raised
                                     ELSE IF r.result.code = NoneV THEN "None"
                                     ELSE IF r.result.code = Some(0)
                                       THEN "exit 0"
                                     ELSE "exit non-zero")),
             !.resets = @ + r.resets, !.k = @ + 1],
   raised |-> r.raised,
   code |-> IF r.raised = "" THEN r.result.code ELSE NoneV]

\* HighDevice.shell(cmd) -> LowDevice.shell
ShellRun(st, cmd, env) ==
  Shelled(st, cmd, Shell(cmd, adb_cmd, env.plans[st.k], adbReply))

\* Lines 1071-1073, r being how shell('restorecon <file>') ended.
KeysRestored(r) ==
  IF r.raised # "" THEN Ended(r.st, "", r.raised)
  ELSE Ended(r.st, IF r.code # Some(0) THEN "False" ELSE "True", "")

\* Lines 1068-1073, pushed being what push_content returned.
KeysPushed(pushed, env) ==
  IF ~pushed.value THEN Ended(pushed.st, "False", "")
  ELSE KeysRestored(ShellRun(pushed.st, RestoreconFileCmd, env))

\* Lines 1066-1073, r being how shell('restorecon <dir>') ended.
DirRestored(keys, r, env) ==
  IF r.raised # "" THEN Ended(r.st, "", r.raised)
  ELSE IF r.code # Some(0) THEN Ended(r.st, "False", "")
  ELSE KeysPushed(PushContent(r.st, AdbKeysPath, JoinKeys(keys, 1), env),
                  env)

\* Lines 1064-1073, r being how shell('mkdir -p <dir>') ended.
DirMade(keys, r, env) ==
  IF r.raised # "" THEN Ended(r.st, "", r.raised)
  ELSE IF r.code # Some(0) THEN Ended(r.st, "False", "")
  ELSE DirRestored(keys, ShellRun(r.st, RestoreconDirCmd, env), env)

\* Lines 1063-1073: the keys are written to the device.
WriteKeys(keys, st, env) == DirMade(keys, ShellRun(st, MkdirCmd, env), env)

\* Lines 1058-1073, old_content being what pull_content returned.
KeysRead(keys, old_content, env) ==
  IF old_content.value # NoneV /\ old_content.value.val # <<>>
    THEN IF keys \subseteq KeysOf(old_content.value.val)
           THEN Ended(old_content.st, "True", "")
         ELSE WriteKeys(keys \cup KeysOf(old_content.value.val),
                        old_content.st, env)
  ELSE WriteKeys(keys, old_content.st, env)

\* HighDevice.push_keys(), raw being the keys of _ADB_KEYS_RAW.
PushKeys(raw, st, env) ==
  IF raw = NoneV \/ raw.val = {} THEN Ended(st, "False", "")
  ELSE KeysRead(raw.val, PullContent(st, AdbKeysPath, env), env)

NoKeysCall == [op |-> "init", n |-> 0, pre |-> <<>>, log |-> <<>>,
               result |-> "", raised |-> "", before |-> ""]

\* initialize() has run with the public keys `raw` (NoneV: it has not), and
\* no push_keys yet.
KeysConstructed(raw) ==
  /\ adb_keys_raw = raw
  /\ keysCall = NoKeysCall

\* The keys while another subsystem is looked at.
KeysIdle == KeysConstructed(NoneV)

\* device.push_keys(), env being what the transport does during the call;
\* adb_keys is a regular file, which takes what is written to it.  `before`
\* is how the call before this one ended.
HighPushKeys(env) ==
  /\ keysCall.n < MaxPushes
  /\ env.honours
  /\ keysCall' = [op |-> "push_keys", n |-> keysCall.n + 1, pre |-> sysfs,
                  log |-> PushKeys(adb_keys_raw, Threaded(sysfs), env).st.log,
                  result |->
                    PushKeys(adb_keys_raw, Threaded(sysfs), env).result,
                  raised |->
                    PushKeys(adb_keys_raw, Threaded(sysfs), env).raised,
                  before |-> keysCall.result]
  /\ sysfs' = PushKeys(adb_keys_raw, Threaded(sysfs), env).st.sysfs
  /\ has_reset' =
       HasReset(has_reset,
                PushKeys(adb_keys_raw, Threaded(sysfs), env).st.resets)
  /\ UNCHANGED <<hd_cache, govCall, adb_cmd, on_error, adbReply, lowCall,
                 adb_keys_raw>>
  /\ UNCHANGED notKeys

\* What _ADB_KEYS_RAW holds: initialize() never ran, found no key, was given
\* one key, or was given one and found the local one.
RawKeys == {NoneV, Some({}), Some({"ka"}), Some({"ka", "kb"})}

\* What the device's adb_keys holds before the first call: nothing, a blank
\* line, a key the host does not have, the host's first key, both of the
\* host's keys, and a host key with another one.
AdbKeysFiles ==
  {<<>>, <<"LF">>, <<"kc", "LF">>, <<"ka", "LF">>,
   <<"ka", "LF", "kb", "LF">>, <<"kc", "LF", "ka">>}

\* A HighDevice whose handle is connected, over any device; or one whose
\* handle failed to open, which reaches no device.
KeysInit ==
  \E raw \in RawKeys :
    /\ KeysConstructed(raw)
    /\ hd_cache = PrimedCache(1, {})
    /\ govCall = NoGovCall
    /\ \/ \E reply \in EchoReplies, file \in AdbKeysFiles :
            /\ LowConstructed("conn", TRUE, FALSE, reply)
            /\ sysfs = (AdbKeysPath :> file)
       \/ /\ LowConstructed("None", TRUE, FALSE, <<>>)
          /\ sysfs = (AdbKeysPath :> <<>>)

KeysNext == \E env \in Envs : HighPushKeys(env)

-----------------------------------------------------------------------------
(* api/platforms/android.py: open_device_low *)

\* Bound: the number of handles open_device_low is called for.
MaxOpens == 2

\* How handle.Open() ends: it returns with the handle open, or raises one of
\* the three errors of lines 612-631 or another USBError, the handle staying
\* closed.
OpenOutcomes == {"ok", "USBErrorNoDevice", "USBErrorBusy", "USBErrorAccess",
                 "USBErrorIO"}

\* How AdbCommands.Connect ends: it returns the connection, or raises one of
\* the two errors of lines 648-651 or another one.
ConnectOutcomes == {"ok", "DeviceAuthError", "LibusbWrappingError",
                    "USBErrorTimeout"}

NoOpenCall == [pc |-> "idle", n |-> 0, port_path |-> "", callback |-> FALSE,
               handle |-> "None", cmd |-> "None", kills |-> 0, closes |-> 0,
               handled |-> <<>>, raised |-> ""]

\* Lines 606-607 and 636: `handle` is given, `cmd = None`.
OpenCalled(c, port_path, callback) ==
  [NoOpenCall EXCEPT !.pc = "open", !.n = c.n + 1, !.port_path = port_path,
                     !.callback = callback, !.handle = "handle"]

\* Lines 608-634, the first handle.Open() having ended as `outcome`:
\* USBErrorNoDevice and USBErrorAccess drop the handle, USBErrorBusy kills
\* adb and opens again, any other error leaves open_device_low.
Opened(c, outcome) ==
  CASE outcome = "ok" -> [c EXCEPT !.pc = "connect"]
    [] outcome \in {"USBErrorNoDevice", "USBErrorAccess"} ->
         [c EXCEPT !.pc = "construct", !.handle = "None",
                   !.handled = Append(@, outcome)]
    [] outcome = "USBErrorBusy" -> [c EXCEPT !.pc = "reopen", !.kills = @ + 1]
    [] OTHER -> [c EXCEPT !.pc = "raised", !.raised = outcome]

\* Lines 622-630, the second handle.Open() having ended as `outcome`: only
\* USBErrorBusy is caught.
Reopened(c, outcome) ==
  CASE outcome = "ok" -> [c EXCEPT !.pc = "connect"]
    [] outcome = "USBErrorBusy" ->
         [c EXCEPT !.pc = "construct", !.handle = "None",
                   !.handled = Append(@, outcome)]
    [] OTHER -> [c EXCEPT !.pc = "raised", !.raised = outcome]

\* A mutant of Connected: the handle is closed for the two errors caught
\* only.
ConnectedClosesWhenCaught(c, outcome) ==
  CASE outcome = "ok" -> [c EXCEPT !.pc = "construct", !.cmd = "conn"]
    [] outcome \in {"DeviceAuthError", "LibusbWrappingError"} ->
         [c EXCEPT !.pc = "construct", !.closes = @ + 1,
                   !.handled = Append(@, outcome)]
    [] OTHER -> [c EXCEPT !.pc = "raised", !.raised = outcome]

\* Lines 637-655, AdbCommands.Connect having ended as `outcome`: the two
\* errors are logged, another one goes on, and the finally clause closes the
\* handle whenever cmd was not set.
Connected(c, outcome) ==
  CASE outcome = "ok" -> [c EXCEPT !.pc = "construct", !.cmd = "conn"]
    [] outcome \in {"DeviceAuthError", "LibusbWrappingError"} ->
         [c EXCEPT !.pc = "construct", !.closes = @ + 1,
                   !.handled = Append(@, outcome)]
    [] OTHER -> [c EXCEPT !.pc = "raised", !.raised = outcome,
                          !.closes = @ + 1]

\* No handle is open and open_device_low has not been called.
OpenIdle ==
  /\ usb_open = [q \in Ports |-> FALSE]
  /\ openCall = NoOpenCall

\* open_device_low(handle, on_error) is called for a handle FindDevices
\* yielded.
OpenDeviceLowCalled(port_path, callback) ==
  /\ openCall.pc \in {"idle", "returned", "raised"}
  /\ openCall.n < MaxOpens
  /\ ~usb_open[port_path]
  /\ openCall' = OpenCalled(openCall, port_path, callback)
  /\ UNCHANGED usb_open
  /\ UNCHANGED lowVars
  /\ UNCHANGED notOpen

\* Line 611: handle.Open()
OpenDeviceLowOpens(outcome) ==
  /\ openCall.pc = "open"
  /\ openCall' = Opened(openCall, outcome)
  /\ usb_open' = [usb_open EXCEPT ![openCall.port_path] = outcome = "ok"]
  /\ UNCHANGED lowVars
  /\ UNCHANGED notOpen

\* Line 625: handle.Open(), after kill_adb().
OpenDeviceLowReopens(outcome) ==
  /\ openCall.pc = "reopen"
  /\ openCall' = Reopened(openCall, outcome)
  /\ usb_open' = [usb_open EXCEPT ![openCall.port_path] = outcome = "ok"]
  /\ UNCHANGED lowVars
  /\ UNCHANGED notOpen

\* Lines 637-655: AdbCommands.Connect(handle, ...) and what follows it;
\* handle.Close() closes the handle.
OpenDeviceLowConnects(outcome) ==
  /\ openCall.pc = "connect"
  /\ openCall' = Connected(openCall, outcome)
  /\ usb_open' = [usb_open EXCEPT
                    ![openCall.port_path] =
                      Connected(openCall, outcome).closes = openCall.closes]
  /\ UNCHANGED lowVars
  /\ UNCHANGED notOpen

\* Line 659: return LowDevice(cmd, port_path, on_error); the constructor
\* reads the serial number of a connected device, which may fault.
OpenDeviceLowReturns(serialFault) ==
  /\ openCall.pc = "construct"
  /\ openCall' = [openCall EXCEPT !.pc = "returned"]
  /\ adb_cmd' = openCall.cmd
  /\ on_error' = openCall.callback
  /\ has_reset' = (openCall.cmd # "None" /\ serialFault)
  /\ adbReply' = <<>>
  /\ lowCall' = NoCall
  /\ UNCHANGED usb_open
  /\ UNCHANGED notOpen

OpenCalls ==
  \E port_path \in Ports, callback \in BOOLEAN :
    OpenDeviceLowCalled(port_path, callback)

OpenOpens == \E outcome \in OpenOutcomes : OpenDeviceLowOpens(outcome)

OpenReopens == \E outcome \in OpenOutcomes : OpenDeviceLowReopens(outcome)

OpenConnects ==
  \E outcome \in ConnectOutcomes : OpenDeviceLowConnects(outcome)

OpenReturns == \E serialFault \in BOOLEAN : OpenDeviceLowReturns(serialFault)

OpenNext ==
  \/ OpenCalls
  \/ OpenOpens
  \/ OpenReopens
  \/ OpenConnects
  \/ OpenReturns

-----------------------------------------------------------------------------
(* Specifications *)

\* The Bot state container, constructed with any agent attributes.
InitBot == BotInit /\ PollInit /\ LowIdle /\ DiscIdle /\ GovIdle /\ WrapIdle /\ RestartIdle /\ ClientIdle /\ AgentIdle /\ ConnIdle /\ ViewIdle /\ ReadIdle /\ CacheIdle /\ KeysIdle /\ OpenIdle

SpecBot == InitBot /\ [][BotNext]_vars

\* The gRPC remote client, polling forever.
InitPoll == BotIdle /\ PollInit /\ LowIdle /\ DiscIdle /\ GovIdle /\ WrapIdle /\ RestartIdle /\ ClientIdle /\ AgentIdle /\ ConnIdle /\ ViewIdle /\ ReadIdle /\ CacheIdle /\ KeysIdle /\ OpenIdle

SpecPoll == InitPoll /\ [][PollNext]_vars

\* One LowDevice, valid or not, with or without an on_error callback.
InitLow == BotIdle /\ PollInit /\ LowInit /\ DiscIdle /\ GovIdle /\ WrapIdle /\ RestartIdle /\ ClientIdle /\ AgentIdle /\ ConnIdle /\ ViewIdle /\ ReadIdle /\ CacheIdle /\ KeysIdle /\ OpenIdle

SpecLow == InitLow /\ [][LowNext]_vars

\* The parsing of shell replies.
InitShell == BotIdle /\ PollInit /\ ShellInit /\ DiscIdle /\ GovIdle /\ WrapIdle /\ RestartIdle /\ ClientIdle /\ AgentIdle /\ ConnIdle /\ ViewIdle /\ ReadIdle /\ CacheIdle /\ KeysIdle /\ OpenIdle

SpecShell == InitShell /\ [][ShellNext]_vars

\* Discoveries on a bus whose devices come, go and are reflashed.
InitDisc == BotIdle /\ PollInit /\ LowIdle /\ DiscInit /\ GovIdle /\ WrapIdle /\ RestartIdle /\ ClientIdle /\ AgentIdle /\ ConnIdle /\ ViewIdle /\ ReadIdle /\ CacheIdle /\ KeysIdle /\ OpenIdle

SpecDisc == InitDisc /\ [][DiscNext]_vars

\* One call on a HighDevice, from any state of the device's cpufreq files.
InitGov == BotIdle /\ PollInit /\ GovInit /\ DiscIdle /\ WrapIdle /\ RestartIdle /\ ClientIdle /\ AgentIdle /\ ConnIdle /\ ViewIdle /\ ReadIdle /\ CacheIdle /\ KeysIdle /\ OpenIdle

SpecGov == InitGov /\ [][GovNext]_vars

\* Calls of run_shell_wrapped on a HighDevice, step by step.
InitWrap == BotIdle /\ PollInit /\ WrapInit /\ DiscIdle /\ GovIdle /\ RestartIdle /\ ClientIdle /\ AgentIdle /\ ConnIdle /\ ViewIdle /\ ReadIdle /\ CacheIdle /\ KeysIdle /\ OpenIdle

SpecWrap == InitWrap /\ [][WrapNext]_vars

\* Calls of post_error and restart on a Bot, restart step by step.
InitRestart == BotIdle /\ PollInit /\ LowIdle /\ DiscIdle /\ GovIdle /\ WrapIdle /\ RestartInit /\ ClientIdle /\ AgentIdle /\ ConnIdle /\ ViewIdle /\ ReadIdle /\ CacheIdle /\ KeysIdle /\ OpenIdle

SpecRestart == InitRestart /\ [][RestartNext]_vars

\* Task updates, task errors and code downloads through the gRPC client.
InitClient == BotIdle /\ PollInit /\ LowIdle /\ DiscIdle /\ GovIdle /\ WrapIdle /\ RestartIdle /\ ClientInit /\ AgentIdle /\ ConnIdle /\ ViewIdle /\ ReadIdle /\ CacheIdle /\ KeysIdle /\ OpenIdle

SpecClient == InitClient /\ [][ClientNext]_vars

\* A caller reading Bot.dimensions and Bot.state and writing to what it got.
InitView == BotIdle /\ PollInit /\ LowIdle /\ DiscIdle /\ GovIdle /\ WrapIdle /\ RestartIdle /\ ClientIdle /\ AgentIdle /\ ConnIdle /\ ViewIdle /\ ReadIdle /\ CacheIdle /\ KeysIdle /\ OpenIdle

SpecView == InitView /\ [][ViewNext]_vars

\* The composite reads of a HighDevice, over whatever the device answers.
InitRead == BotIdle /\ PollInit /\ LowIdle /\ DiscIdle /\ GovIdle /\ WrapIdle /\ RestartIdle /\ ClientIdle /\ AgentIdle /\ ConnIdle /\ ViewIdle /\ ReadIdle /\ CacheIdle /\ KeysIdle /\ OpenIdle

SpecRead == InitRead /\ [][ReadNext]_vars

\* Workers calling the per-device registry at the same time.
InitWorkers == BotIdle /\ PollInit /\ LowIdle /\ GovIdle /\ WrapIdle /\ RestartIdle /\ ClientIdle /\ AgentIdle /\ ConnIdle /\ ViewIdle /\ ReadIdle /\ CacheConstructed /\ KeysIdle /\ OpenIdle

SpecWorkers == InitWorkers /\ [][CacheNext]_vars

\* push_keys on a HighDevice, over any host keys and any adb_keys file.
InitKeys == BotIdle /\ PollInit /\ KeysInit /\ DiscIdle /\ WrapIdle /\ RestartIdle /\ ClientIdle /\ AgentIdle /\ ConnIdle /\ ViewIdle /\ ReadIdle /\ CacheIdle /\ OpenIdle

SpecKeys == InitKeys /\ [][KeysNext]_vars

\* open_device_low over the handles of the host, before any LowDevice.
InitOpen == BotIdle /\ PollInit /\ LowIdle /\ DiscIdle /\ GovIdle /\ WrapIdle /\ RestartIdle /\ ClientIdle /\ AgentIdle /\ ConnIdle /\ ViewIdle /\ ReadIdle /\ CacheIdle /\ KeysIdle /\ OpenIdle

SpecOpen == InitOpen /\ [][OpenNext]_vars

\* The agent's poll loop over the gRPC client.
InitAgent == BotIdle /\ PollInit /\ LowIdle /\ DiscIdle /\ GovIdle /\ WrapIdle /\ RestartIdle /\ ClientIdle /\ AgentIdle /\ ConnIdle /\ ViewIdle /\ ReadIdle /\ CacheIdle /\ KeysIdle /\ OpenIdle

SpecAgent == InitAgent /\ [][AgentNext]_vars

-----------------------------------------------------------------------------
(* Claims *)

\* The dimensions a config forces: cfg['dimensions'] when the config has them.
C1_Forced(cfg) ==
  IF cfg = NoneV THEN EmptyDict
  ELSE IF "dimensions" \in DOMAIN cfg.val THEN cfg.val["dimensions"]
  ELSE EmptyDict

C2_PollDecodesEachCommand ==
  (pollCall.op = "poll" /\ pollCall.response # NoneV) =>
    LET resp == pollCall.response.val
        res  == pollCall.result
        m    == resp.manifest
    IN /\ resp.cmd = "UPDATE" =>
            pollCall.raised = "" /\ res.tag = "update" /\ res.value = resp.version
       /\ resp.cmd = "SLEEP" =>
            pollCall.raised = "" /\ res.tag = "sleep" /\ res.value = resp.sleep_time
       /\ resp.cmd = "TERMINATE" =>
            /\ pollCall.raised = "" /\ res.tag = "terminate"
            /\ res.value = resp.terminate_taskid
       /\ resp.cmd = "RESTART" =>
            /\ pollCall.raised = "" /\ res.tag = "restart"
            /\ res.value = resp.restart_message
       /\ resp.cmd = "RUN" =>
            /\ pollCall.raised = "" /\ res.tag = "run"
            /\ res.value.bot_id = m.bot_id
            /\ res.value.dimensions = m.dimensions
            /\ res.value.env = m.env
            /\ res.value.grace_period = m.grace_period
            /\ res.value.hard_timeout = m.hard_timeout
            /\ res.value.io_timeout = m.io_timeout
            /\ res.value.isolated.namespace = m.isolated.namespace
            /\ res.value.isolated.input = m.isolated.input
            /\ res.value.task_id = m.task_id
       /\ resp.cmd \notin {"UPDATE", "SLEEP", "TERMINATE", "RESTART", "RUN"} =>
            pollCall.raised # "" /\ res.tag = ""

\* C2 witness: a RUN response with task_id "123" came back as a run outcome
\* whose manifest has task_id "123".
C2_Witness ==
  /\ pollCall.op = "poll" /\ pollCall.response # NoneV
  /\ pollCall.response.val.cmd = "RUN"
  /\ pollCall.response.val.manifest.task_id = "123"
  /\ pollCall.result.tag = "run"
  /\ pollCall.result.value.task_id = "123"

\* Every attempt of the call's retry loop met one of LowDevice._ERRORS.
AllFaulted(plan) == \A i \in DOMAIN plan : plan[i] = "usb_error"

\* The value the documentation of each operation gives for failure.
C3_Sentinel(op) ==
  CASE op \in {"listdir", "pull_content"} -> "None"
    [] op = "stat" -> "(None, None, None)"
    [] op = "shell" -> [out |-> NoneV, code |-> NoneV]
    [] OTHER -> "False"

C3_Ops == {"listdir", "stat", "pull", "pull_content", "push", "push_content",
           "reboot", "remount", "shell"}

\* The case of C3: one of the nine operations, on a valid handle, with
\* arguments its assertions accept, every transport attempt faulting.
C3_Case ==
  /\ lowCall.op \in C3_Ops
  /\ lowCall.valid /\ lowCall.argsOK
  /\ AllFaulted(lowCall.plan)

\* C3 as stated: ... the operation makes exactly _tries attempts, invokes the
\* on_error callback at least once and returns its sentinel without raising.
C3_AsStated ==
  C3_Case =>
    /\ lowCall.attempts = Tries
    /\ lowCall.callbacks >= 1
    /\ lowCall.raised = ""
    /\ lowCall.result = C3_Sentinel(lowCall.op)

\* C3 amended: ... the operation makes exactly _tries attempts, returns its
\* sentinel without raising, and invokes the on_error callback once per
\* faulted attempt when the handle was given one; a handle built without a
\* callback (on_error None) invokes nothing.
C3_RetryThenSentinel ==
  C3_Case =>
    /\ lowCall.attempts = Tries
    /\ lowCall.resets = Tries
    /\ on_error => lowCall.callbacks = Tries /\ lowCall.callbacks >= 1
    /\ ~on_error => lowCall.callbacks = 0
    /\ lowCall.raised = ""
    /\ lowCall.result = C3_Sentinel(lowCall.op)

\* C3 witness: a faulting pull_content on a valid handle with a callback.
C3_Witness ==
  /\ C3_Case
  /\ lowCall.op = "pull_content"
  /\ on_error
  /\ lowCall.attempts = Tries
  /\ lowCall.callbacks >= 1
  /\ lowCall.result = "None"

\* C4: reset_adbd_as_root and reset_adbd_as_user never raise; when every
\* transport call faults, and when the handle is invalid, each returns False.
C4_RootTogglesNeverRaise ==
  lowCall.op \in {"reset_adbd_as_root", "reset_adbd_as_user"} =>
    /\ lowCall.raised = ""
    /\ (~lowCall.valid \/ AllFaulted(lowCall.plan)) => lowCall.result = "False"

\* The value of a string of the digits 0 and 1 read as a decimal number.
RECURSIVE C8_Value(_)
C8_Value(code) ==
  IF Len(code) = 0 THEN 0
  ELSE IF code[1] = "1" THEN 10 ^ (Len(code) - 1) + C8_Value(Tail(code))
  ELSE C8_Value(Tail(code))

\* A body in which no CR LF pair can form: every CR is followed by a
\* character other than LF.
C8_Body(body) ==
  \A k \in 1..Len(body) :
    body[k] = "CR" => k < Len(body) /\ body[k + 1] # "LF"

\* The reply is body, end of line, n digits, end of line, where the first end
\* of line takes e1 characters (LF, or CR LF).
C8_Form(reply, i, e1, n) ==
  LET L    == Len(reply)
      eol1 == SubSeq(reply, i + 1, i + e1)
      code == SubSeq(reply, i + e1 + 1, i + e1 + n)
      eol2 == SubSeq(reply, i + e1 + n + 1, L)
  IN /\ i + e1 + n < L
     /\ C8_Body(SubSeq(reply, 1, i))
     /\ eol1 \in {<<"LF">>, <<"CR", "LF">>}
     /\ \A k \in 1..n : code[k] \in {"0", "1"}
     /\ eol2 \in {<<"LF">>, <<"CR", "LF">>}

\* C8: shell_raw(cmd) on a valid handle sends cmd followed by the exit-code
\* probe, and for a reply <body> EOL <digits> EOL, each EOL being LF or CR LF,
\* returns (body, the number the digits spell).
C8_ShellRawBodyAndCode ==
  (lowCall.op = "shell_raw" /\ lowCall.valid /\ lowCall.argsOK) =>
    /\ lowCall.sent = <<<<"echo hi", " ;echo -e \"\\n$?\"">>>>
    /\ \A i \in 0..Len(adbReply), e1 \in 1..2, n \in 1..Len(adbReply) :
         (lowCall.plan = <<"ok">> /\ C8_Form(adbReply, i, e1, n)) =>
           /\ lowCall.raised = ""
           /\ lowCall.result =
                [out |-> Some(SubSeq(adbReply, 1, i)),
                 code |-> Some(C8_Value(SubSeq(adbReply, i + e1 + 1,
                                               i + e1 + n)))]

\* C8 witness: the reply "hi\n0\n" to shell_raw("echo hi") gave ("hi", 0).
C8_Witness ==
  /\ lowCall.op = "shell_raw" /\ lowCall.valid
  /\ adbReply = <<"h", "i", "LF", "0", "LF">>
  /\ lowCall.raised = ""
  /\ lowCall.result = [out |-> Some(<<"h", "i">>), code |-> Some(0)]

\* C9: a non-empty reply that does not end with a newline makes shell_raw
\* fail with an assertion error, and shell() lets that error through instead
\* of returning (None, None).
C9_NoNewlineFailsLoudly ==
  ( /\ lowCall.op \in {"shell_raw", "shell"}
    /\ lowCall.valid /\ lowCall.argsOK
    /\ \A i \in DOMAIN lowCall.plan : lowCall.plan[i] = "ok"
    /\ Len(adbReply) > 0
    /\ adbReply[Len(adbReply)] # "LF" ) =>
    lowCall.raised = "AssertionError"

\* C9 witness: shell() met the reply "hi" and raised the assertion error.
C9_Witness ==
  /\ lowCall.op = "shell" /\ lowCall.valid
  /\ adbReply = <<"h", "i">>
  /\ lowCall.raised = "AssertionError"

\* The HighDevices get_devices has produced: those of the call in progress
\* and those the last call returned.
Produced ==
  {disc.opened[q] : q \in DOMAIN disc.opened}
  \cup (IF devices = NoneV THEN {}
        ELSE {devices.val[i] : i \in DOMAIN devices.val})

\* C5: after _PerDeviceCache.trim(S) returns (S being the devices get_devices
\* is about to return), every key left in the cache is the port path of a
\* device of S that reports is_valid.
C5_TrimKeepsOnlyValidDevices ==
  discLast = "get_devices returned" =>
    \A k \in DOMAIN per_device :
      \E i \in DOMAIN devices.val :
        devices.val[i].port_path = k /\ devices.val[i].valid

\* C5 witness: a discovery returned two devices; one failed to open and its
\* entry is gone, the other is valid and its entry is still there.
C5_Witness ==
  /\ discLast = "get_devices returned"
  /\ \E i, j \in DOMAIN devices.val :
       /\ ~devices.val[i].valid /\ devices.val[i].hit
       /\ devices.val[i].port_path \notin DOMAIN per_device
       /\ devices.val[j].valid
       /\ devices.val[j].port_path \in DOMAIN per_device

\* C6: during and after a discovery, a lookup in the per-device cache (the
\* one _init_cache makes before the trim included) yields an entry only for
\* a device that is valid in this enumeration: a device that failed to open
\* never receives a previously cached entry.
C6_LookupOnlyForValidDevice == \A d \in Produced : d.hit => d.valid

\* C7: the HighDevice produced for a device that was unplugged, reflashed and
\* replugged at the same port path never carries a DeviceCache primed before
\* the unplug, that is, from an earlier OS image.
C7_NoCacheFromEarlierImage ==
  \A d \in Produced : d.valid => d.cache.image = d.image

\* The governors that are known and have no substitution entry.
C10_NoSubstitute == {"conservative", "performance", "userspace"}

\* The requests of a call log that write to the device.
C10_Writes(log) ==
  {i \in DOMAIN log : log[i].prim \in {"push_content", "shell"}}

\* C10: set_cpu_scaling_governor(g) for a known governor g that the device's
\* cache does not list and that has no substitution entry (conservative,
\* performance, userspace) returns False without issuing any write to the
\* device (no push_content, no shell), and the device's files are as before.
C10_UnsupportedFailsWithoutWrite ==
  (/\ govCall.op = "set_cpu_scaling_governor"
   /\ govCall.governor \in C10_NoSubstitute
   /\ govCall.governor \notin hd_cache.available_governors)
  => /\ govCall.raised = ""
     /\ govCall.result = "False"
     /\ C10_Writes(govCall.log) = {}
     /\ sysfs = govCall.pre

\* C10 witness: 'performance' was asked of a connected device whose cache
\* does not list it, whose kernel would have honoured the write and whose
\* current governor is another one.
C10_Witness ==
  /\ govCall.op = "set_cpu_scaling_governor"
  /\ govCall.governor = "performance"
  /\ "performance" \notin hd_cache.available_governors
  /\ adb_cmd = "conn"
  /\ govCall.honours
  /\ govCall.pre[GovernorPath] = <<"interactive", "LF">>
  /\ govCall.result = "False"

\* The requests of a call log that concern the file at `path`.
OnPath(log, path) == {i \in DOMAIN log : log[i].path = path}

\* The last request of the log is a read of `path` that returned a content
\* which, stripped, is `expected`.
LastReadIs(log, path, expected) ==
  /\ log # <<>>
  /\ log[Len(log)].prim = "pull_content"
  /\ log[Len(log)].path = path
  /\ log[Len(log)].result = Success("pull_content")
  /\ Strip(log[Len(log)].content) = expected

\* The call wrote and read back: its last request is a read that follows a
\* write (a push_content or the shell fallback).
C11_ReadBack(log) ==
  /\ Len(log) >= 2
  /\ log[Len(log)].prim = "pull_content"
  /\ log[Len(log) - 1].prim \in {"push_content", "shell"}

\* The write failed and the shell answered: push_content returned False and
\* the echo did not exit with 0.
C11_WriteFailed(log) ==
  \E i \in DOMAIN log :
    /\ log[i].prim = "shell"
    /\ log[i].result \in {"None", "exit non-zero"}

\* The write failed because the shell fallback raised.
C11_WriteRaised(log) ==
  \E i \in DOMAIN log :
    /\ log[i].prim = "shell"
    /\ log[i].result \notin {"None", "exit non-zero", "exit 0"}

C11_Case ==
  /\ govCall.op = "set_cpu_scaling_governor"
  /\ govCall.governor \in hd_cache.available_governors

C12_GovernorFirst(log) ==
  \A i \in OnPath(log, SetSpeedPath), j \in OnPath(log, GovernorPath) : j < i

\* The governor switch succeeded: the last request on scaling_governor read
\* 'userspace'.
C12_Userspace(log) ==
  \E j \in OnPath(log, GovernorPath) :
    /\ \A k \in OnPath(log, GovernorPath) : k <= j
    /\ log[j].prim = "pull_content"
    /\ log[j].result = Success("pull_content")
    /\ Strip(log[j].content) = <<"userspace">>

\* What is asked of scaling_setspeed: one push of the speed and a newline,
\* then, when the push went through, one read.
C12_WriteThenRead(log, speed) ==
  LET on == OnPath(log, SetSpeedPath)
  IN /\ Cardinality(on) \in {1, 2}
     /\ \A i \in on :
          IF \A j \in on : i <= j
            THEN /\ log[i].prim = "push_content"
                 /\ log[i].content = DecStr(speed) \o <<"LF">>
                 /\ (log[i].result = "True") = (Cardinality(on) = 2)
            ELSE log[i].prim = "pull_content"

\* C12: set_cpu_speed(speed) rejects a speed outside MinSpeed..MaxSpeed
\* without asking anything of the device; for an accepted speed it first sets
\* the governor to 'userspace', then, unless that raised, pushes the speed to
\* scaling_setspeed and reads it back; it returns True only if the governor
\* switch succeeded and the value read back, stripped, is the speed.
C12_SpeedAfterUserspace ==
  (govCall.op = "set_cpu_speed" /\ govCall.speed # NoneV) =>
    IF govCall.speed.val < MinSpeed \/ govCall.speed.val > MaxSpeed
      THEN /\ govCall.raised = "AssertionError"
           /\ govCall.log = <<>>
           /\ sysfs = govCall.pre
    ELSE /\ C12_GovernorFirst(govCall.log)
         /\ govCall.raised = ""
            => C12_WriteThenRead(govCall.log, govCall.speed.val)
         /\ govCall.raised # "" => OnPath(govCall.log, SetSpeedPath) = {}
         /\ govCall.result = "True" =>
              /\ C12_Userspace(govCall.log)
              /\ LastReadIs(govCall.log, SetSpeedPath,
                            DecStr(govCall.speed.val))

\* C12 witness: the highest accepted speed was set on a device that ran
\* another governor: the governor was switched, the speed pushed and read
\* back.
C12_Witness ==
  /\ govCall.op = "set_cpu_speed"
  /\ govCall.speed = Some(MaxSpeed)
  /\ govCall.result = "True"
  /\ Strip(govCall.pre[GovernorPath]) # <<"userspace">>
  /\ Len(govCall.log) >= 5

\* The temporary files the call of run_shell_wrapped made, in the order it
\* has to remove them: the output file, then the script.
C13_ToRemove ==
  (IF wrap.outfile = NoneV THEN <<>> ELSE <<wrap.outfile.val>>)
  \o (IF wrap.script = NoneV THEN <<>> ELSE <<wrap.script.val>>)

\* C13: when run_shell_wrapped returns or raises, it has issued a removal for
\* every temporary file mkstemp made for it, and for no other: the script
\* alone when the output file could not be made, the output file and then the
\* script otherwise, whether the run returned or raised.
C13_RemovesWhatItCreated ==
  wrap.pc = "done" => wrap.removals = C13_ToRemove

\* C13 witness: the script and the output file were made, the run raised,
\* and the call raised after having issued both removals.
C13_Witness ==
  /\ wrap.pc = "done"
  /\ wrap.ran = "raised"
  /\ wrap.raised # ""
  /\ wrap.script # NoneV /\ wrap.outfile # NoneV
  /\ wrap.removals = <<wrap.outfile.val, wrap.script.val>>

\* The positions in the trace of the steps named `step`.
StepsOf(trace, step) == {i \in DOMAIN trace : trace[i].step = step}

\* C14: Bot.post_error(message) never raises, whether the remote client's
\* post_bot_event returns or raises: it posts one 'bot_error' event whose text
\* is the message (less its trailing whitespace) followed by the captured
\* call stack, and when the post raises the exception is logged and nothing
\* else is done.
C14_PostErrorNeverRaises ==
  botProc.op = "post_error" =>
    /\ botProc.raised = "" /\ botProc.pc = "returned"
    /\ Len(botTrace) >= 1
    /\ botTrace[1].step = "post_bot_event"
    /\ botTrace[1].type = "bot_error"
    /\ botTrace[1].text = RStrip(botProc.message) \o StackText
    /\ IF botTrace[1].outcome = "raises"
         THEN /\ Len(botTrace) = 2
              /\ botTrace[2].step = "logging.exception"
       ELSE Len(botTrace) = 1

\* C14 witness: post_error was called with a message that ends with a
\* newline and the post raised.
C14_Witness ==
  /\ botProc.op = "post_error"
  /\ botProc.message = <<"boom", "LF">>
  /\ botTrace[1].outcome = "raises"
  /\ botProc.pc = "returned"

\* The shutdown hook was run and raised.
C15_HookRaised ==
  /\ Len(botTrace) >= 2
  /\ botTrace[2].step = "shutdown_hook"
  /\ botTrace[2].outcome = "raises"

\* C15: Bot.restart(message) does its steps in a fixed order: it posts the
\* 'bot_rebooting' event first; the shutdown hook runs second, and only when
\* one is set; os_utilities.restart is called after them with the message and
\* a timeout of 15 minutes; an exception raised by the shutdown hook is
\* logged and the next thing restart does is the OS-level restart.
C15_RestartOrder ==
  botProc.op = "restart" =>
    /\ botTrace # <<>>
    /\ StepsOf(botTrace, "post_bot_event") \cap
         {i \in DOMAIN botTrace : botTrace[i].type = "bot_rebooting"} = {1}
    /\ botTrace[1].text = botProc.message
    /\ StepsOf(botTrace, "shutdown_hook") \subseteq {2}
    /\ StepsOf(botTrace, "shutdown_hook") # {} => shutdown_hook
    /\ \A i \in StepsOf(botTrace, "os_utilities.restart") :
         /\ botTrace[i].timeout = 15 * 60
         /\ botTrace[i].text = botProc.message
         /\ botTrace[1].outcome = "returns"
         /\ IF shutdown_hook
              THEN /\ botTrace[2].step = "shutdown_hook"
                   /\ i = IF C15_HookRaised THEN 4 ELSE 3
            ELSE i = 2
    /\ C15_HookRaised =>
         /\ Len(botTrace) >= 3
         /\ botTrace[3].step = "logging.exception"
         /\ \/ botProc.pc = "os_restart" /\ Len(botTrace) = 3
            \/ /\ Len(botTrace) >= 4
               /\ botTrace[4].step = "os_utilities.restart"

\* C15 witness: the shutdown hook raised and the OS-level restart was issued
\* after it.
C15_Witness ==
  /\ botProc.op = "restart"
  /\ C15_HookRaised
  /\ Len(botTrace) >= 4
  /\ botTrace[4].step = "os_utilities.restart"
  /\ botTrace[4].timeout = 900

\* The errors restart has posted so far.
C16_Errors ==
  {i \in DOMAIN botTrace :
     botTrace[i].step = "post_bot_event" /\ botTrace[i].type = "bot_error"}

\* C16: once os_utilities.restart has raised LookupError inside restart, the
\* bot posts one error event (the bad partition) and then stays in the sleep
\* loop: restart neither returns nor raises, and the 'stuck restarting'
\* error is never posted.
C16_LookupErrorHangs ==
  (botProc.op = "restart" /\ botProc.os = "LookupError") =>
    /\ botProc.pc \in {"bad_partition", "hang"}
    /\ botProc.raised = ""
    /\ Cardinality(C16_Errors) = IF botProc.pc = "hang" THEN 1 ELSE 0
    /\ \A i \in C16_Errors :
         botTrace[i].text =
           <<"This host partition is bad; please fix the host">> \o StackText

\* C16 witness: the restart raised LookupError, the error was posted and the
\* bot has slept in the loop.
C16_Witness ==
  /\ botProc.op = "restart"
  /\ botProc.os = "LookupError"
  /\ botProc.pc = "hang"
  /\ botProc.slept
  /\ Cardinality(C16_Errors) = 1

\* The call just made reports a task: post_task_update or post_task_error.
C17_Reports == clientCall.op \in {"post_task_update", "post_task_error"}

\* C17: post_task_update and post_task_error never raise and return a
\* boolean: a report the channel fails to carry is returned to the caller as
\* False, a report that was carried as True.
C17_AsStated ==
  C17_Reports =>
    /\ clientCall.raised = ""
    /\ clientCall.result =
         IF clientCall.channel = "fails" THEN "False" ELSE "True"

\* C18: get_bot_code touches the destination file only after the download:
\* when self._stub.Update fails, RpcError reaches the caller and the file is
\* what it was before the call (absent, or with the same content); the file
\* is opened or written only after Update was asked and answered.
C18_DownloadBeforeFile ==
  clientCall.op = "get_bot_code" =>
    /\ clientCall.channel = "fails" =>
         /\ clientCall.raised = "RpcError"
         /\ new_zip = clientCall.before
         /\ \A i \in DOMAIN clientCall.steps :
              clientCall.steps[i] \notin {"open", "write"}
    /\ \A i \in DOMAIN clientCall.steps :
         clientCall.steps[i] \in {"open", "write"} =>
           /\ clientCall.channel = "delivers"
           /\ \E j \in 1..(i - 1) : clientCall.steps[j] = "Update"

\* C18 witness: a download failed over a file left by an earlier update, and
\* that file is intact.
C18_Witness ==
  /\ clientCall.op = "get_bot_code"
  /\ clientCall.channel = "fails"
  /\ clientCall.raised = "RpcError"
  /\ clientCall.before # NoneV
  /\ new_zip = clientCall.before

\* C19: a poll that returns a Run outcome leaves _log_is_asleep cleared; the
\* flag then stays cleared until a poll returns a Sleep outcome (only a Sleep
\* sets it), and a Sleep that finds it cleared logs 'Going to sleep'.  Hence
\* the first Sleep after any Run logs 'Going to sleep' again.
C19_SleepAfterRunLogsAgain ==
  [][/\ pollCall'.result.tag = "run" => ~log_is_asleep'
     /\ (~log_is_asleep /\ pollCall'.result.tag # "sleep") => ~log_is_asleep'
     /\ (~log_is_asleep /\ pollCall'.result.tag = "sleep") =>
          pollCall'.logged = "Going to sleep"]_vars

\* C19 witness: a Run outcome was returned by a poll that found the flag set,
\* and the flag is cleared.
C19_Witness ==
  /\ pollCall.op = "poll"
  /\ pollCall.result.tag = "run"
  /\ pollCall.was_asleep
  /\ ~log_is_asleep

\* The state the command of a poll response stands for; a command poll()
\* does not know gives no outcome.
C20_StateFor(cmd) ==
  CASE cmd = "SLEEP" -> "Sleeping"
    [] cmd = "UPDATE" -> "Updating"
    [] cmd = "TERMINATE" -> "Terminated"
    [] cmd = "RESTART" -> "Restarting"
    [] cmd = "RUN" -> "Running"
    [] OTHER -> "Idle"

C20_Terminal == {"Updating", "Terminated", "Restarting"}

C21_NothingForced ==
  /\ botCall.op = "_update_bot_group_cfg"
  /\ (botCall.cfg = NoneV \/ "dimensions" \notin DOMAIN botCall.cfg.val)

\* C21: after each call _update_bot_group_cfg(version, cfg), the state holds
\* bot_group_cfg_version = version, and every other key of the state is
\* there exactly when it was there before the call, with the same value.
C21_AsStated ==
  botCall.op = "_update_bot_group_cfg" =>
    LET st  == State(attributes)
        pre == State(botCall.pre)
    IN /\ "bot_group_cfg_version" \in DOMAIN st
       /\ st["bot_group_cfg_version"] = botCall.version
       /\ \A k \in (DOMAIN st \cup DOMAIN pre) \ {"bot_group_cfg_version"} :
            k \in DOMAIN st /\ k \in DOMAIN pre /\ st[k] = pre[k]

\* C30: _update_bot_group_cfg(version, cfg) with cfg None or without a
\* 'dimensions' entry completes without error, leaves every dimension the
\* agent supplied as it was and stamps the version into the state.
C30_AsStated ==
  C21_NothingForced =>
    /\ botCall.raised = ""
    /\ Dimensions(attributes) = Dimensions(botCall.pre)
    /\ "bot_group_cfg_version" \in DOMAIN State(attributes)
    /\ State(attributes)["bot_group_cfg_version"] = botCall.version

\* Agent-supplied dimensions overridden by forced ones.
C27_Override(agent, forced) ==
  [k \in DOMAIN agent \cup DOMAIN forced |->
     IF k \in DOMAIN forced THEN forced[k] ELSE agent[k]]

\* C27: after a sequence of _update_bot_group_cfg calls the effective
\* dimensions are the agent's own, overridden by what the latest config
\* forces, and by nothing an earlier config forced.  Stated for the second of
\* two such calls on a new Bot, both given a config with 'dimensions' and
\* both returning: botCall.pre of the first is what the agent supplied.
C27_AsStated ==
  [][(/\ botCalls = 1
      /\ botCall.op = "_update_bot_group_cfg"
      /\ botCall.raised = ""
      /\ botCalls' = 2
      /\ botCall'.op = "_update_bot_group_cfg"
      /\ botCall'.raised = "")
     => Dimensions(attributes') =
          C27_Override(Dimensions(botCall.pre), C1_Forced(botCall'.cfg))]_vars

C23_Sentinel(op) ==
  IF op \in {"shell", "shell_raw"} THEN ShellResult(NoneV, NoneV)
  ELSE Sentinel(op)

C22_AsStated ==
  viewCall.op \in {"set", "del", "append"} =>
    Reads(attrRefs, heap) = viewCall.seen

\* The HighDevices the discovery in progress has built, or those the last
\* discovery returned.
C25_Devices ==
  {disc.opened[q] : q \in DOMAIN disc.opened}
    \cup (IF devices = NoneV THEN {}
          ELSE {devices.val[i] : i \in DOMAIN devices.val})

\* C25: during discovery reset_adbd_as_root is attempted for a device exactly
\* when its cache has has_su and its adbd does not already run as root.
C25_AsStated ==
  \A d \in C25_Devices : d.escalated <=> (d.cache.has_su /\ ~d.root)

\* The port paths whose worker ends in this step of the discovery.
C28_Opened(q) ==
  /\ disc.pc = "opening"
  /\ disc'.pc = "opening"
  /\ q \notin DOMAIN disc.opened
  /\ q \in DOMAIN disc'.opened

\* C28: get_devices() never raises because a handle could not be opened or
\* connected, whatever the per-device cache held for its port path: the
\* worker of such a handle ends without an exception; and a discovery none
\* of whose workers raised returns one HighDevice for every handle.
C28_AsStated ==
  [][/\ \A q \in Ports :
          (C28_Opened(q) /\ ~disc'.opened[q].valid) =>
            disc'.raised = disc.raised
     /\ (disc.pc = "opening" /\ disc'.pc = "idle" /\ disc.raised = "") =>
          /\ devices' # NoneV
          /\ Len(devices'.val) = Cardinality(DOMAIN disc.opened)]_vars

\* The step in which get_devices() trims the registry with the devices it
\* is about to return.
C29_Trims ==
  /\ disc.pc = "opening"
  /\ disc.handles = {}
  /\ disc.raised = ""
  /\ disc'.pc = "idle"

\* C29: _PerDeviceCache.trim(S) removes nothing but stale entries: every
\* entry whose port path belongs to a valid device of S is still present
\* with the same value after the trim, and the trim adds no entry and
\* changes no value.
C29_TrimOnlyDropsStale ==
  [][C29_Trims =>
       LET S == DeviceList(disc.opened, 1)
       IN /\ DOMAIN per_device' \subseteq DOMAIN per_device
          /\ \A q \in DOMAIN per_device' : per_device'[q] = per_device[q]
          /\ \A i \in DOMAIN S :
               (S[i].valid /\ S[i].port_path \in DOMAIN per_device) =>
                 /\ S[i].port_path \in DOMAIN per_device'
                 /\ per_device'[S[i].port_path] = per_device[S[i].port_path]
     ]_vars

\* A discovery has returned a valid device next to one that failed to open,
\* and the registry holds the entry of the valid one only.
C29_Witness ==
  /\ discLast = "get_devices returned"
  /\ devices # NoneV
  /\ \E i, j \in DOMAIN devices.val :
       /\ devices.val[i].valid
       /\ devices.val[i].port_path \in DOMAIN per_device
       /\ ~devices.val[j].valid
       /\ devices.val[j].hit
       /\ devices.val[j].port_path \notin DOMAIN per_device

\* C26: get_battery, get_disk, get_temperatures, get_ip, get_uptime,
\* get_imei and list_packages never raise: when the primitive under them
\* returns its failure sentinel, or the diagnostic text lacks a field or has
\* an unexpected shape, each returns None or an empty result.
C26_AsStated ==
  readCall.op \in {"get_battery", "get_disk", "get_temperatures", "get_ip",
                   "get_uptime", "get_imei", "list_packages"} =>
    readCall.result.raised = ""

\* The workers whose call has ended.
C24_Done == {w \in Workers : workers[w].pc = "done"}

\* C24: under any interleaving of get, set and trim calls from several
\* workers each call is atomic: once the calls have ended, the registry and
\* what every get returned are those of the same calls made one after the
\* other in some order; so, when no worker trims, every entry that was set
\* is there.
C24_Atomic ==
  (\A w \in Workers : workers[w].pc \in {"idle", "done"}) =>
    /\ \E order \in Orders(C24_Done) : Explains(order, 1, per_device0)
    /\ (\A u \in Workers : workers[u].op # "trim") =>
         \A w \in C24_Done :
           workers[w].op = "set" =>
             /\ workers[w].port_path \in DOMAIN per_device
             /\ per_device[workers[w].port_path] = workers[w].cache

\* Two workers have set the entries of distinct port paths, missing before,
\* in calls that overlapped, and both entries are there.
C24_Witness ==
  \E v, w \in Workers :
    /\ workers[v].pc = "done" /\ workers[v].op = "set"
    /\ workers[w].pc = "done" /\ workers[w].op = "set"
    /\ workers[w].overlapped
    /\ workers[v].port_path # workers[w].port_path
    /\ per_device0 = EmptyDict
    /\ \A u \in {v, w} : workers[u].port_path \in DOMAIN per_device

\* The restart in progress has taken the step named.
C31_Took(step) == \E i \in DOMAIN botTrace : botTrace[i].step = step

\* C31: a failure raised while posting the 'bot_rebooting' event does not
\* prevent Bot.restart from running the shutdown hook and issuing the
\* OS-level restart: a restart whose post raised does not end before it has
\* called the hook, when there is one, and os_utilities.restart.
C31_AsStated ==
  (/\ botProc.op = "restart"
   /\ botProc.pc \in {"raised", "returned", "killed", "hang"}
   /\ botTrace[1].type = "bot_rebooting"
   /\ botTrace[1].outcome = "raises") =>
    /\ shutdown_hook => C31_Took("shutdown_hook")
    /\ C31_Took("os_utilities.restart")

\* C32: in any sequence of polls the sleep-log flag is set exactly when the
\* most recent outcome among Sleep and Run was Sleep: a Sleep sets it, a Run
\* clears it, every other outcome and every failed poll leaves it as the
\* poll found it; and 'Going to sleep' is logged by a Sleep that found the
\* flag cleared, by no other poll.
C32_FlagFollowsSleepAndRun ==
  pollCall.op = "poll" =>
    /\ log_is_asleep = (CASE pollCall.result.tag = "sleep" -> TRUE
                          [] pollCall.result.tag = "run" -> FALSE
                          [] OTHER -> pollCall.was_asleep)
    /\ (pollCall.logged = "Going to sleep") <=>
         (pollCall.result.tag = "sleep" /\ ~pollCall.was_asleep)

\* A Sleep outcome has followed another one: the flag is still set and the
\* second poll logged nothing.
C32_Witness ==
  /\ pollCall.op = "poll"
  /\ pollCall.result.tag = "sleep"
  /\ pollCall.was_asleep
  /\ log_is_asleep
  /\ pollCall.logged = ""

\* The governors the call in govCall wrote, or tried to write, to the
\* device's scaling_governor file, by push_content or by the echo.
C33_Written ==
  {govCall.log[i].content[1] :
     i \in {j \in DOMAIN govCall.log :
              /\ govCall.log[j].prim \in {"push_content", "shell"}
              /\ govCall.log[j].path = GovernorPath}}

\* C33: every value that set_cpu_scaling_governor writes to the device's
\* scaling_governor file is a member of the device's cached
\* available_governors, also when the governor asked for was replaced
\* through the ondemand/interactive substitution.
C33_AsStated ==
  govCall.op = "set_cpu_scaling_governor" =>
    C33_Written \subseteq hd_cache.available_governors

\* The governor the call in govCall is to put on the device: the one asked
\* for or its substitute.
C34_Target == Substitute(govCall.governor, hd_cache.available_governors)

\* The first thing the call asked of the device was the scaling_governor
\* file, and it read the target governor there.
C34_AlreadySet ==
  /\ govCall.op = "set_cpu_scaling_governor"
  /\ govCall.governor \in KNOWN_CPU_SCALING_GOVERNOR_VALUES
  /\ C34_Target.how = "switch"
  /\ Len(govCall.log) >= 1
  /\ govCall.log[1].prim = "pull_content"
  /\ govCall.log[1].path = GovernorPath
  /\ govCall.log[1].result = Success("pull_content")
  /\ Strip(govCall.log[1].content) = <<C34_Target.to>>

\* C34: set_cpu_scaling_governor performs no write when the value on the
\* device already equals the target governor: it returns True after the
\* first read, with no push_content and no shell write issued, and the
\* device's files are as they were.
C34_NoWriteWhenAlreadySet ==
  C34_AlreadySet =>
    /\ govCall.result = "True"
    /\ govCall.raised = ""
    /\ Len(govCall.log) = 1
    /\ sysfs = govCall.pre

\* The governor asked for was replaced by its substitute, which the device
\* was already running: the call returned True after one read.
C34_Witness ==
  /\ C34_AlreadySet
  /\ C34_Target.to # govCall.governor
  /\ govCall.result = "True"

\* C35: set_cpu_scaling_governor and set_cpu_speed call each other, yet
\* every call ends, whatever governor is asked for and whatever governors the
\* device lists: the nesting is never deeper than set_cpu_scaling_governor ->
\* set_cpu_speed -> set_cpu_scaling_governor, the innermost call being the one
\* for 'userspace', which is never replaced by a speed.
C35_NestingAtMostThree ==
  /\ Substitute("userspace", hd_cache.available_governors).how
       # "set_cpu_speed"
  /\ govCall.op # "init" =>
       /\ govCall.result # "" \/ govCall.raised # ""
       /\ govCall.frames \in
            {<<"set_cpu_scaling_governor">>,
             <<"set_cpu_scaling_governor", "set_cpu_speed">>,
             <<"set_cpu_scaling_governor", "set_cpu_speed",
               "set_cpu_scaling_governor">>,
             <<"set_cpu_speed">>,
             <<"set_cpu_speed", "set_cpu_scaling_governor">>}
       /\ govCall.frames[1] = govCall.op

\* An unsupported 'powersave' was asked for on a device that does not list
\* 'userspace' either: the call went three frames deep and ended.
C35_Witness ==
  /\ govCall.op = "set_cpu_scaling_governor"
  /\ govCall.governor = "powersave"
  /\ "userspace" \notin hd_cache.available_governors
  /\ Len(govCall.frames) = 3
  /\ govCall.result = "False"

\* The attempt of the call in lowCall at which the transport raised
\* AdbCommandFailureException, every earlier attempt having raised a USB
\* fault; 0 when there is none.
C36_FailedAt ==
  IF \E i \in DOMAIN lowCall.plan :
       /\ lowCall.plan[i] = "cmd_failure"
       /\ \A j \in 1..(i - 1) : lowCall.plan[j] = "usb_error"
    THEN CHOOSE i \in DOMAIN lowCall.plan :
           /\ lowCall.plan[i] = "cmd_failure"
           /\ \A j \in 1..(i - 1) : lowCall.plan[j] = "usb_error"
  ELSE 0

\* C36: when the transport raises AdbCommandFailureException during listdir,
\* stat, pull, pull_content, push, push_content, reboot or remount on a valid
\* handle, the operation returns its sentinel at once, without raising: that
\* attempt is the last, and neither _try_reset nor the on_error callback runs
\* for it.
C36_CommandFailureEndsAtOnce ==
  (/\ lowCall.op \in RetryOps
   /\ lowCall.valid /\ lowCall.argsOK
   /\ C36_FailedAt > 0) =>
    /\ lowCall.attempts = C36_FailedAt
    /\ lowCall.resets = C36_FailedAt - 1
    /\ lowCall.callbacks = (IF on_error THEN C36_FailedAt - 1 ELSE 0)
    /\ lowCall.raised = ""
    /\ lowCall.result = Sentinel(lowCall.op)

\* A stat on a valid handle with a callback met a command failure: it
\* returned (None, None, None) and the callback did not run.
C36_Witness ==
  /\ lowCall.op = "stat"
  /\ lowCall.valid /\ lowCall.argsOK
  /\ on_error
  /\ C36_FailedAt = 1
  /\ lowCall.callbacks = 0
  /\ lowCall.result = "(None, None, None)"

\* The devices get_devices has built so far or has returned.
C37_Built ==
  {disc.opened[q] : q \in DOMAIN disc.opened}
    \cup (IF devices = NoneV THEN {}
          ELSE {devices.val[i] : i \in DOMAIN devices.val})

\* None of the six fields of a DeviceCache is None (has_su is a bool and
\* available_governors a list whatever the device answered).
C37_Full(cache) ==
  \A f \in {"build_props", "external_storage_path", "cpuinfo_max_freq",
            "cpuinfo_min_freq"} : cache[f] # NoneV

\* C37: _init_cache stores a DeviceCache in the per-device cache only when
\* none of its fields is None, so every entry the cache ever holds is fully
\* populated; a device whose priming partly failed has a DeviceCache that was
\* returned to it but is not in the cache, and one whose priming worked has
\* its DeviceCache stored under its port path.
C37_OnlyFullEntriesStored ==
  /\ \A q \in DOMAIN per_device : C37_Full(per_device[q])
  /\ \A d \in C37_Built :
       ~C37_Full(d.cache) =>
         /\ ~d.hit
         /\ d.port_path \notin DOMAIN per_device
  /\ \A q \in DOMAIN disc.opened :
       C37_Full(disc.opened[q].cache) =>
         /\ q \in DOMAIN per_device
         /\ per_device[q] = disc.opened[q].cache

\* A connected device whose build.prop could not be pulled: the other facts
\* were read, the DeviceCache was handed to the device and nothing was stored,
\* while the other port's complete DeviceCache is in the cache.
C37_Witness ==
  \E q \in DOMAIN disc.opened :
    /\ disc.opened[q].valid
    /\ disc.opened[q].cache.build_props = NoneV
    /\ disc.opened[q].cache.cpuinfo_min_freq # NoneV
    /\ q \notin DOMAIN per_device
    /\ \E p \in DOMAIN per_device : p # q

\* What the mkstemp of the last turn was called for, and what
\* run_shell_wrapped holds of it: the name it returned, NoneV before that and
\* when it returned None.
C40_ForScript == wrap.turn.name[4] = ".sh"

C40_Returned == IF C40_ForScript THEN wrap.script ELSE wrap.outfile

C40_Pc == IF C40_ForScript THEN "mkstemp_script" ELSE "mkstemp_outfile"

\* C40: mkstemp tries at most 5 names; it calls push_content only for a name
\* for which stat reported no mode; it returns the name of the first push
\* that succeeds, the file being on the device; a turn that makes no file is
\* followed by the next turn, and after the fifth mkstemp returns None (so
\* run_shell_wrapped returns False).
C40_MkstempFiveTurns ==
  /\ wrap.tries \in 0..(MkstempTries - 1)
  /\ wrap.turn.n \in 0..MkstempTries
  /\ wrap.turn.n > 0 =>
       /\ wrap.turn.mode => wrap.turn.push = ""
       /\ IF wrap.turn.push = Success("push_content")
            THEN /\ C40_Returned = Some(wrap.turn.name)
                 /\ wrap.pc # C40_Pc
                 /\ wrap.pc \in {"mkstemp_outfile", "run"} =>
                      wrap.turn.name \in tmpfiles
          ELSE /\ C40_Returned = NoneV
               /\ IF wrap.turn.n < MkstempTries
                    THEN wrap.pc = C40_Pc /\ wrap.tries = wrap.turn.n
                  ELSE /\ wrap.pc # C40_Pc
                       /\ wrap.result = ReturnsFalse

\* The script's mkstemp drew four names that were taken or could not be
\* pushed, and its fifth push went through: the fifth name was returned.
C40_Witness ==
  /\ wrap.turn.n = MkstempTries
  /\ C40_ForScript
  /\ wrap.turn.push = Success("push_content")
  /\ wrap.script = Some(wrap.turn.name)
  /\ wrap.pc = "mkstemp_outfile"

\* The contents the push_keys in keysCall asked to be written to adb_keys.
C39_Writes ==
  {keysCall.log[i].content :
     i \in {j \in DOMAIN keysCall.log :
              /\ keysCall.log[j].prim = "push_content"
              /\ keysCall.log[j].path = AdbKeysPath}}

\* The keys the device trusted when the call was made.
C39_Trusted == KeysOf(keysCall.pre[AdbKeysPath])

\* The host has keys and the device trusted all of them already.
C39_NothingToAdd ==
  /\ adb_keys_raw # NoneV
  /\ adb_keys_raw.val # {}
  /\ adb_keys_raw.val \subseteq C39_Trusted

\* C39 as stated: push_keys never removes a previously trusted key: whenever
\* it writes the device's adb_keys, the keys written are the union of the
\* keys already on the device and the host's keys; when every host key is
\* already on the device it returns True without writing.
C39_AsStated ==
  keysCall.op = "push_keys" =>
    /\ \A content \in C39_Writes :
         KeysOf(content) = C39_Trusted \cup adb_keys_raw.val
    /\ C39_NothingToAdd =>
         /\ keysCall.result = "True"
         /\ C39_Writes = {}

\* The open_device_low in openCall is over: it has its LowDevice to build,
\* has returned it, or has let an exception through.
C38_Over == openCall.pc \in {"construct", "returned", "raised"}

\* C38: open_device_low returns a LowDevice for every failure it handles
\* (USBErrorNoDevice, USBErrorAccess, USBErrorBusy a second time,
\* DeviceAuthError, LibusbWrappingError) and that device is not valid; and
\* whenever it ends without an ADB connection, by returning or by letting an
\* exception through, the USB handle it was given is closed, having been
\* closed exactly when it had been opened.
C38_InvalidDeviceAndClosedHandle ==
  /\ openCall.handled # <<>> =>
       /\ openCall.pc \in {"construct", "returned"}
       /\ openCall.raised = ""
       /\ openCall.cmd = "None"
       /\ openCall.pc = "returned" => adb_cmd = "None"
  /\ (C38_Over /\ openCall.cmd = "None") =>
       ~usb_open[openCall.port_path]
  /\ (openCall.pc = "raised" /\ openCall.raised \in ConnectOutcomes) =>
       openCall.closes = 1
  /\ openCall.pc = "returned" => adb_cmd = openCall.cmd

\* The bus was busy, adb was killed, the handle opened at the second try and
\* the device refused the keys: the handle was closed and an invalid
\* LowDevice returned.
C38_Witness ==
  /\ openCall.pc = "returned"
  /\ openCall.kills = 1
  /\ openCall.handled = <<"DeviceAuthError">>
  /\ openCall.closes = 1
  /\ ~usb_open[openCall.port_path]
  /\ adb_cmd = "None"

=============================================================================
